---- MODULE Spec2Model ----
(***************************************************************************)
(* Model of the AWS SSO auditor (cpk_lib_python_aws.aws_sso_auditor).      *)
(*                                                                         *)
(* AWSSSOAuditor.audit_account is modelled as a sequential state machine:  *)
(* the provisioned-permission-set listing, one assignment listing per      *)
(* provisioned permission set, the single pass over the flat assignment    *)
(* sequence (split at the places where the code calls the provider), and   *)
(* the construction of the report.  What the provider answers (records,    *)
(* pages, failures) is drawn at the moment of each call.                   *)
(***************************************************************************)
EXTENDS Integers, Sequences, FiniteSets, TLC

(***************************************************************************)
(* Bounds of the model.                                                    *)
(***************************************************************************)
MaxProvisioned == 2   \* permission sets returned by the provisioned listing
MaxAssignments == 2   \* records of the flat raw assignment sequence
MaxFailures == 2      \* provider calls that fail during one run
MaxPages == 2         \* pages of one paginated listing

(***************************************************************************)
(* The identifiers the provider knows.                                     *)
(***************************************************************************)
AccountIds == {"123456789012"}
PermissionSetArns == {"ps-1", "ps-2"}
GroupIds == {"g-1", "g-2"}
UserIds == {"u-1", "u-2"}
instance_arn == "arn:aws:sso:::instance/ssoins-1"
identity_store_id == "d-1"
auditor_version == "1.0.0"
aws_region == "us-east-1"
output_formats == <<"json", "yaml">>

(***************************************************************************)
(* Sequences over S of length at most n, and the ways of cutting a         *)
(* sequence into n consecutive pages (pages may be empty).                 *)
(***************************************************************************)
BoundedSeq(S, n) == UNION {[1..k -> S] : k \in 0..n}

\* The sequences of BoundedSeq(S, n) that name no element twice.
DistinctSeq(S, n) == {s \in BoundedSeq(S, n) : \A i, j \in 1..Len(s) : s[i] = s[j] => i = j}

RECURSIVE Splits(_, _)
Splits(items, n) ==
    IF n <= 1 THEN {<<items>>}
    ELSE UNION { { <<SubSeq(items, 1, cut)>> \o rest :
                     rest \in Splits(SubSeq(items, cut + 1, Len(items)), n - 1) } :
                 cut \in 0..Len(items) }

RECURSIVE Concat(_)
Concat(seqs) == IF seqs = <<>> THEN <<>> ELSE Head(seqs) \o Concat(Tail(seqs))

Range(s) == {s[i] : i \in 1..Len(s)}

(***************************************************************************)
(* Outcome of a call: a returned value or a raised exception.              *)
(***************************************************************************)
Ret(v) == [raised |-> FALSE, val |-> v]
Exc(e) == [raised |-> TRUE, exc |-> e]

(***************************************************************************)
(* A boto3 paginator: get_paginator, then one request per page.  failAt is *)
(* the request that raises: 0 is get_paginator itself, k in 1..Len(pages)  *)
(* is the k-th page, Len(pages)+1 means that no request raises.  read is   *)
(* what the loop body has seen before the exception.                       *)
(***************************************************************************)
Paginate(pages, failAt) ==
    IF failAt > Len(pages)
    THEN [raised |-> FALSE, read |-> Concat(pages)]
    ELSE [raised |-> TRUE,
          read |-> IF failAt = 0 THEN <<>> ELSE Concat(SubSeq(pages, 1, failAt - 1))]

(***************************************************************************)
(* Python values as utils.safe_get_nested sees them: it tells a dict from  *)
(* every other value (isinstance).  A list index such as 0 is written      *)
(* "[0]" as a key.                                                         *)
(***************************************************************************)
PyDict(f) == [t |-> "dict", v |-> f]
PyList(s) == [t |-> "list", v |-> s]
PyStr(s) == [t |-> "str", v |-> s]

RECURSIVE safe_get_nested(_, _, _)
safe_get_nested(data, keys, default) ==
    IF keys = <<>> THEN data
    ELSE IF data.t = "dict" /\ Head(keys) \in DOMAIN data.v
         THEN safe_get_nested(data.v[Head(keys)], Tail(keys), default)
         ELSE default

clean_aws_response(response) ==
    [k \in DOMAIN response \ {"ResponseMetadata", "NextToken", "IsTruncated"} |-> response[k]]

(***************************************************************************)
(* The provider's snapshot: what each describe/list call answers when it   *)
(* does not fail.  g-1 has one member and g-2 two; g-2 has no Description, *)
(* u-2 neither DisplayName nor Emails, ps-2 no Description, no managed     *)
(* policy and no inline policy.                                            *)
(***************************************************************************)
describe_group(group_id) ==
    IF group_id = "g-1"
    THEN [GroupId |-> group_id, DisplayName |-> "Admins", Description |-> "Administrators"]
    ELSE [GroupId |-> group_id, DisplayName |-> "Developers"]

\* The UserIds of the memberships of a group, in the provider's order.
GroupMemberships(group_id) == IF group_id = "g-1" THEN <<"u-1">> ELSE <<"u-2", "u-1">>

describe_user(user_id) ==
    IF user_id = "u-1"
    THEN PyDict([UserId |-> PyStr(user_id), UserName |-> PyStr("alice"),
                 DisplayName |-> PyStr("Alice A"),
                 Emails |-> PyList(<<PyDict([Value |-> PyStr("alice@example.com"),
                                             Primary |-> PyStr("true")])>>)])
    ELSE PyDict([UserId |-> PyStr(user_id), UserName |-> PyStr("bob")])

describe_permission_set(permission_set_arn) ==
    IF permission_set_arn = "ps-1"
    THEN [PermissionSet |-> [PermissionSetArn |-> permission_set_arn, Name |-> "AdminAccess",
                             Description |-> "Full access", SessionDuration |-> "PT1H"],
          ResponseMetadata |-> "http-200"]
    ELSE [PermissionSet |-> [PermissionSetArn |-> permission_set_arn, Name |-> "ReadOnly",
                             SessionDuration |-> "PT8H"],
          ResponseMetadata |-> "http-200"]

AttachedManagedPolicies(permission_set_arn) ==
    IF permission_set_arn = "ps-1"
    THEN <<[Name |-> "AdministratorAccess", Arn |-> "arn:aws:iam::aws:policy/AdministratorAccess"]>>
    ELSE <<>>

CustomerManagedPolicyReferences(permission_set_arn) ==
    IF permission_set_arn = "ps-1"
    THEN <<[Name |-> "team-policy", Path |-> "/team/"]>>
    ELSE <<[Name |-> "plain-policy"]>>

InlinePolicy(permission_set_arn) ==
    IF permission_set_arn = "ps-1" THEN "{\"Version\": \"2012-10-17\"}" ELSE ""

None == [py_none |-> TRUE]

json_loads(s) ==
    IF s = "{\"Version\": \"2012-10-17\"}" THEN Ret([Version |-> "2012-10-17"])
    ELSE Exc("JSONDecodeError")

(***************************************************************************)
(* The lookups of AWSSSOAuditor.  A parameter named ...Fails or failAt or  *)
(* mode says which provider request of the call raises.                    *)
(***************************************************************************)
\* Mutant: the failure of the listing is not caught.
get_permission_sets_for_account_raising(pages, failAt) ==
    LET p == Paginate(pages, failAt)
    IN  IF p.raised THEN Exc("ClientError") ELSE Ret(p.read)

\* Mutant: the pages read before the failure are returned.
get_permission_sets_for_account_keeping_prefix(pages, failAt) ==
    Ret(Paginate(pages, failAt).read)

get_permission_sets_for_account(pages, failAt) ==
    LET p == Paginate(pages, failAt)
    IN  IF p.raised THEN Ret(<<>>) ELSE Ret(p.read)

\* Mutant: the failure of one assignment listing is not caught.
get_account_assignments_for_permission_set_raising(pages, failAt) ==
    LET p == Paginate(pages, failAt)
    IN  IF p.raised THEN Exc("ClientError") ELSE Ret(p.read)

get_account_assignments_for_permission_set(pages, failAt) ==
    LET p == Paginate(pages, failAt)
    IN  IF p.raised THEN Ret(<<>>) ELSE Ret(p.read)

\* Mutant: the placeholder does not keep the identifier asked for.
get_group_details_anonymous_placeholder(group_id, fails) ==
    LET response == describe_group(group_id)
    IN  IF fails
        THEN Ret([GroupId |-> "Unknown", DisplayName |-> "Unknown", Description |-> ""])
        ELSE Ret([GroupId |-> response.GroupId,
                  DisplayName |-> response.DisplayName,
                  Description |-> IF "Description" \in DOMAIN response
                                  THEN response.Description ELSE ""])

get_group_details(group_id, fails) ==
    LET response == describe_group(group_id)
    IN  IF fails
        THEN Ret([GroupId |-> group_id, DisplayName |-> "Unknown", Description |-> ""])
        ELSE Ret([GroupId |-> response.GroupId,
                  DisplayName |-> response.DisplayName,
                  Description |-> IF "Description" \in DOMAIN response
                                  THEN response.Description ELSE ""])

get_user_details(user_id, fails) ==
    LET response == describe_user(user_id)
    IN  IF fails
        THEN Ret([UserId |-> user_id, UserName |-> "Unknown",
                  DisplayName |-> "Unknown", Email |-> ""])
        ELSE Ret([UserId |-> response.v.UserId.v,
                  UserName |-> response.v.UserName.v,
                  DisplayName |-> IF "DisplayName" \in DOMAIN response.v
                                  THEN response.v.DisplayName.v
                                  ELSE response.v.UserName.v,
                  Email |-> safe_get_nested(response, <<"Emails", "[0]", "Value">>,
                                            PyStr("")).v])

\* The user lookups made by the loop body over the memberships read.
UserLookups(read, userFails) ==
    [i \in 1..Len(read) |->
        get_user_details(read[i].MemberId.UserId, read[i].MemberId.UserId \in userFails)]

\* Mutant: the members read before the failure are returned.
get_group_members_keeping_members(group_id, pages, failAt, userFails) ==
    LET p == Paginate(pages, failAt)
        user_details == UserLookups(p.read, userFails)
    IN  Ret([i \in 1..Len(user_details) |-> user_details[i].val])

get_group_members(group_id, pages, failAt, userFails) ==
    LET p == Paginate(pages, failAt)
        user_details == UserLookups(p.read, userFails)
    IN  IF p.raised \/ \E i \in 1..Len(user_details) : user_details[i].raised
        THEN Ret(<<>>)
        ELSE Ret([i \in 1..Len(user_details) |-> user_details[i].val])

\* Mutant: a failed lookup gives a placeholder that keeps the identifier asked for.
get_permission_set_details_placeholder(permission_set_arn, fails) ==
    IF fails THEN Ret([PermissionSetArn |-> permission_set_arn, Name |-> "Unknown"])
    ELSE Ret(clean_aws_response(describe_permission_set(permission_set_arn).PermissionSet))

\* Mutant: the failure of describe_permission_set is not caught.
get_permission_set_details_raising(permission_set_arn, fails) ==
    IF fails THEN Exc("ClientError")
    ELSE Ret(clean_aws_response(describe_permission_set(permission_set_arn).PermissionSet))

get_permission_set_details(permission_set_arn, fails) ==
    IF fails THEN Ret(<<>>)
    ELSE Ret(clean_aws_response(describe_permission_set(permission_set_arn).PermissionSet))

get_customer_managed_policy_details(policy_ref) ==
    IF "Name" \in DOMAIN policy_ref
    THEN [Name |-> policy_ref.Name,
          Path |-> IF "Path" \in DOMAIN policy_ref THEN policy_ref.Path ELSE "/",
          Type |-> "CustomerManaged",
          Note |-> "Policy document not retrieved - requires target account access"]
    ELSE policy_ref

PolicyModes == {"ok", "managed_fail", "customer_fail", "inline_fail", "inline_not_found"}

get_permission_set_policies(permission_set_arn, mode) ==
    LET managed == IF mode = "managed_fail" THEN <<>>
                   ELSE AttachedManagedPolicies(permission_set_arn)
        refs == IF mode \in {"managed_fail", "customer_fail"} THEN <<>>
                ELSE CustomerManagedPolicyReferences(permission_set_arn)
        customer == [i \in 1..Len(refs) |-> get_customer_managed_policy_details(refs[i])]
        text == InlinePolicy(permission_set_arn)
        inline == IF mode = "ok" /\ text # "" /\ ~json_loads(text).raised
                  THEN json_loads(text).val ELSE None
    IN  Ret([managed_policies |-> managed,
             customer_managed_policies |-> customer,
             inline_policy |-> inline])

(***************************************************************************)
(* Python dicts keep insertion order: a dict is a sequence of entries      *)
(* [key, val].                                                             *)
(***************************************************************************)
Keys(d) == [i \in 1..Len(d) |-> d[i].key]
Values(d) == [i \in 1..Len(d) |-> d[i].val]
HasKey(d, k) == \E i \in 1..Len(d) : d[i].key = k
IndexOf(d, k) == CHOOSE i \in 1..Len(d) : d[i].key = k
DictGet(d, k) == d[IndexOf(d, k)].val
\* Mutant: the collection is a list, every store appends an entry.
DictSetAppend(d, k, v) == Append(d, [key |-> k, val |-> v])

DictSet(d, k, v) ==
    IF HasKey(d, k) THEN [d EXCEPT ![IndexOf(d, k)].val = v]
    ELSE Append(d, [key |-> k, val |-> v])

AWSSSOAuditorError(account, cause) ==
    [type |-> "AWSSSOAuditorError", account_id |-> account, cause |-> cause]

NoResult == [none |-> TRUE]
NoError == [none |-> TRUE]

(***************************************************************************)
(* Configuration (aws_access_auditor/config.py).  The environment and the  *)
(* keyword arguments of Config are mappings defined on the names that are  *)
(* set; Python's None in a string position is the string null.             *)
(***************************************************************************)
null == "<None>"

\* os.getenv(name, default).
getenv(env, name, default) == IF name \in DOMAIN env THEN env[name] ELSE default

\* str.lower, on the values an environment flag takes here.
lower(s) == IF s \in {"true", "True", "TRUE"} THEN "true" ELSE s

\* The dataclass constructor followed by __post_init__ (config.py, 16-42).
Config(kwargs, env) ==
    LET field(name, default) == IF name \in DOMAIN kwargs THEN kwargs[name] ELSE default
    IN  [aws_region |-> getenv(env, "AWS_REGION", field("aws_region", "us-east-1")),
         aws_profile |-> getenv(env, "AWS_PROFILE", field("aws_profile", null)),
         timeout |-> field("timeout", 30),
         output_formats |-> field("output_formats", <<"json", "yaml">>),
         output_directory |-> getenv(env, "AWS_ACCESS_AUDITOR_OUTPUT_DIR",
                                     field("output_directory", ".")),
         include_timestamp |-> field("include_timestamp", TRUE),
         debug |-> IF lower(getenv(env, "AWS_ACCESS_AUDITOR_DEBUG", "")) = "true"
                   THEN TRUE ELSE field("debug", FALSE),
         quiet |-> IF lower(getenv(env, "AWS_ACCESS_AUDITOR_QUIET", "")) = "true"
                   THEN TRUE ELSE field("quiet", FALSE)]

valid_formats == <<"json", "yaml", "both">>

Exception(type, message) == [type |-> type, message |-> message]

\* Mutant: a timeout of 0 passes.
validate_zero_timeout_accepted(cfg) ==
    IF \E i \in 1..Len(cfg.output_formats) : cfg.output_formats[i] \notin Range(valid_formats)
    THEN Exc(Exception("ConfigurationError", "Invalid output format"))
    ELSE IF cfg.timeout < 0
         THEN Exc(Exception("ConfigurationError", "Timeout must be greater than 0"))
         ELSE Ret(cfg)

\* Config.validate (config.py, 44-54): the first invalid format is reported,
\* then the timeout; the configuration is only read.
validate(cfg) ==
    LET invalid == {i \in 1..Len(cfg.output_formats) :
                        cfg.output_formats[i] \notin Range(valid_formats)}
        first == CHOOSE i \in invalid : \A j \in invalid : i <= j
    IN  IF invalid # {}
        THEN Exc(Exception("ConfigurationError",
                           "Invalid output format: " \o cfg.output_formats[first]))
        ELSE IF cfg.timeout <= 0
             THEN Exc(Exception("ConfigurationError", "Timeout must be greater than 0"))
             ELSE Ret(cfg)

\* The exception classes derived from AWSSSOAuditorError
\* (aws_access_auditor/exceptions.py, 7-24); CredentialsError derives from
\* AWSError only (shared/exceptions.py, 9).
AWSSSOAuditorErrors ==
    {"AWSSSOAuditorError", "InsufficientPermissionsError", "ConfigurationError",
     "SSOInstanceNotFoundError", "AWSClientError"}

(***************************************************************************)
(* Client discovery (shared/aws_base.py, aws_client_manager.py).  The      *)
(* provider's side is a record aws:                                        *)
(*   session_ok      boto3.Session(...) succeeds                           *)
(*   failing_client  the service whose client cannot be built, or null     *)
(*   listing_fails   list_instances raises                                 *)
(*   sts_ok          sts get_caller_identity succeeds                      *)
(*   Instances       the instances list_instances returns                  *)
(* Each operator returns what was raised or built, and the provider calls  *)
(* made on the way.                                                        *)
(***************************************************************************)
Services == <<"sso-admin", "identitystore", "organizations">>

\* "No SSO instances found" in str(e) (aws_client_manager.py, 65).
NamesNoInstance(e) == e.message = "No SSO instances found in this AWS account"

\* AWSClientManager._discover_sso_instance (aws_client_manager.py, 51-68).
\* The manager is a record; its fields are null until assigned.
_discover_sso_instance(manager, aws) ==
    LET body ==
            IF aws.listing_fails THEN Exc(Exception("ClientError", "AccessDenied"))
            ELSE IF aws.Instances = <<>>
            THEN Exc(Exception("SSOInstanceNotFoundError",
                               "No SSO instances found in this AWS account"))
            ELSE LET sso_instance == aws.Instances[1]
                 IN  IF "IdentityStoreId" \notin DOMAIN sso_instance
                     THEN Exc(Exception("KeyError", "IdentityStoreId"))
                     ELSE IF "InstanceArn" \notin DOMAIN sso_instance
                     THEN Exc(Exception("KeyError", "InstanceArn"))
                     ELSE Ret([manager EXCEPT
                                 !.identity_store_id = sso_instance.IdentityStoreId,
                                 !.instance_arn = sso_instance.InstanceArn])
    IN  IF ~body.raised THEN body
        ELSE IF NamesNoInstance(body.exc) THEN body
        ELSE Exc(Exception("SSOInstanceNotFoundError",
                           "Failed to get SSO instance: " \o body.exc.message))

\* AWSClientManager._initialize_sso_clients (aws_client_manager.py, 34-49).
_initialize_sso_clients(manager, aws) ==
    LET failing == {i \in 1..Len(Services) : Services[i] = aws.failing_client}
        built == IF failing = {} THEN Len(Services) ELSE (CHOOSE i \in failing : TRUE)
        client_calls == [i \in 1..built |-> "client:" \o Services[i]]
        body == IF failing # {}
                THEN Exc(Exception("ClientError", "unknown service"))
                ELSE _discover_sso_instance(manager, aws)
        calls == IF failing # {} THEN client_calls
                 ELSE Append(client_calls, "list_instances")
    IN  [calls |-> calls,
         out |-> IF ~body.raised THEN body
                 ELSE Exc(Exception("AWSClientError",
                                    "Error initializing SSO clients: " \o body.exc.message))]

\* AWSBaseClient.__init__ and AWSClientManager.__init__
\* (shared/aws_base.py, 15-34; aws_client_manager.py, 17-32).
AWSClientManager(cfg, aws) ==
    LET manager == [region |-> cfg.aws_region, profile |-> cfg.aws_profile,
                    identity_store_id |-> null, instance_arn |-> null]
        clients == _initialize_sso_clients(manager, aws)
    IN  IF ~aws.session_ok
        THEN [calls |-> <<"Session">>,
              out |-> Exc(Exception("CredentialsError",
                                    "Failed to initialize AWS session: profile not found"))]
        ELSE [calls |-> <<"Session">> \o clients.calls, out |-> clients.out]

\* AWSBaseClient.get_caller_identity, reached through get_client_info
\* (shared/aws_base.py, 36-42; aws_client_manager.py, 70-86).
get_caller_identity(aws) ==
    [calls |-> <<"client:sts", "get_caller_identity">>,
     out |-> IF aws.sts_ok THEN Ret("caller")
             ELSE Exc(Exception("AWSError", "Failed to get caller identity: ExpiredToken"))]

\* The sink of an auditor built without one (auditor.py, 16-22, 33): its
\* progress and debug_info write nothing.
NullOutputSink == [quiet |-> TRUE, debug |-> FALSE]

\* AWSSSOAuditor.__init__ (auditor.py, 27-52): validation, then the clients,
\* then the client information in debug mode.  lines is what the
\* constructor writes through its sink.
AWSSSOAuditor(cfg, output_sink, aws) ==
    LET checked == validate(cfg)
        talks == output_sink.debug /\ ~output_sink.quiet
        progress == IF talks THEN <<[stream |-> "stdout", text |-> "Initializing AWS clients..."]>>
                    ELSE <<>>
        built == AWSClientManager(cfg, aws)
        identity == get_caller_identity(aws)
    IN  IF checked.raised THEN [calls |-> <<>>, lines |-> <<>>, out |-> checked]
        ELSE IF built.out.raised
        THEN [calls |-> built.calls, lines |-> progress, out |-> built.out]
        ELSE IF ~cfg.debug
        THEN [calls |-> built.calls, lines |-> progress, out |-> built.out]
        ELSE IF identity.out.raised
        THEN [calls |-> built.calls \o identity.calls, lines |-> progress,
              out |-> identity.out]
        ELSE [calls |-> built.calls \o identity.calls,
              lines |-> progress \o
                  (IF talks
                   THEN <<[stream |-> "stdout",
                           text |-> "Connected to SSO instance: "
                                    \o built.out.val.instance_arn]>>
                   ELSE <<>>),
              out |-> built.out]

(***************************************************************************)
(* State of one audit_account run.                                         *)
(*   pc, ps_idx, idx, stage   position in audit_account                    *)
(*   permission_sets          result of get_permission_sets_for_account    *)
(*   all_assignments          the flat raw assignment sequence             *)
(*   groups_data, permission_sets_data   the two mappings of the loop      *)
(*   result, error            what audit_account returns or raises         *)
(* History of the provider's answers:                                      *)
(*   failures      number of provider calls that failed so far             *)
(*   provisioned   outcome of the provisioned listing                      *)
(*   fetched       outcome of each assignment listing, in call order       *)
(*   memberships   outcome of each membership listing, in call order       *)
(*   lookups       the per-item lookups made, in call order                *)
(*   group_ps_log  the (group, permission set) pairs appended to a group   *)
(***************************************************************************)
VARIABLES pc, account_id, permission_sets, ps_idx, all_assignments, idx, stage,
          groups_data, permission_sets_data, result, error,
          failures, provisioned, fetched, memberships, lookups, group_ps_log

(***************************************************************************)
(* State of one run of the command line (aws_access_auditor/cli.py).       *)
(*   cli_pc        position in main                                        *)
(*   argv          the options given on the command line                   *)
(*   environ       the environment variables that are set                  *)
(*   aws           what the provider answers during construction           *)
(*   config        the Config handed to the auditor                        *)
(*   aws_manager   the AWSClientManager of the auditor, once constructed   *)
(*   calls         the provider calls and the steps of main, in order      *)
(*   files         the paths written, in order                             *)
(*   saved_files   what save_results returned                              *)
(*   console       what was written to stdout and stderr, in order         *)
(*   outcome       what main returned or let escape                        *)
(***************************************************************************)
VARIABLES cli_pc, argv, environ, aws, config, aws_manager, calls, files, saved_files,
          console, outcome

cli_vars == <<cli_pc, argv, environ, aws, config, aws_manager, calls, files, saved_files,
              console, outcome>>

audit_vars == <<pc, account_id, permission_sets, ps_idx, all_assignments, idx, stage,
                groups_data, permission_sets_data, result, error,
                failures, provisioned, fetched, memberships, lookups, group_ps_log>>

vars == <<audit_vars, cli_vars>>

NoSettings == [name \in {} |-> null]
NoManager == [none |-> TRUE]
Running == [kind |-> "running"]

\* The provider of the audited organisation: one Identity Center instance.
DefaultAWS ==
    [session_ok |-> TRUE, failing_client |-> null, listing_fails |-> FALSE,
     sts_ok |-> TRUE,
     Instances |-> <<[InstanceArn |-> instance_arn,
                      IdentityStoreId |-> identity_store_id]>>]

history == <<failures, provisioned, fetched, memberships, lookups, group_ps_log>>

Principals ==
    {[type |-> "GROUP", id |-> g] : g \in GroupIds} \cup {[type |-> "USER", id |-> "u-1"]}

AssignmentRecord(principal, arn, account) ==
    [PrincipalType |-> principal.type, PrincipalId |-> principal.id,
     PermissionSetArn |-> arn, AccountId |-> account]

Membership(group_id, user_id) == [GroupId |-> group_id, MemberId |-> [UserId |-> user_id]]

\* audit_account is entered on an auditor constructed with the default
\* configuration against DefaultAWS; the command line is not involved.
Init ==
    /\ pc = "list_permission_sets"
    /\ account_id \in AccountIds
    /\ permission_sets = <<>>
    /\ ps_idx = 0
    /\ all_assignments = <<>>
    /\ idx = 0
    /\ stage = "none"
    /\ groups_data = <<>>
    /\ permission_sets_data = <<>>
    /\ result = NoResult
    /\ error = NoError
    /\ failures = 0
    /\ provisioned = [called |-> FALSE, failed |-> FALSE, listing |-> <<>>]
    /\ fetched = <<>>
    /\ memberships = <<>>
    /\ lookups = <<>>
    /\ group_ps_log = <<>>
    /\ cli_pc = "library"
    /\ argv = NoSettings
    /\ environ = NoSettings
    /\ aws = DefaultAWS
    /\ config = Config(NoSettings, NoSettings)
    /\ aws_manager = AWSSSOAuditor(config, NullOutputSink, aws).out.val
    /\ calls = <<>>
    /\ files = <<>>
    /\ saved_files = <<>>
    /\ console = <<>>
    /\ outcome = Running

\* except Exception (auditor.py, 155-157): the run ends with the aggregation error.
Fails(cause) ==
    /\ pc' = "failed"
    /\ error' = AWSSSOAuditorError(account_id, cause)
    /\ UNCHANGED <<permission_sets, ps_idx, all_assignments, idx, stage,
                   groups_data, permission_sets_data, result>>

\* Mutant: every permission set of the instance is asked, provisioned or not.
QueriedPermissionSetsOfInstance(listed) == <<"ps-1", "ps-2">>

\* Mutant: an empty provisioned listing falls back to the permission sets of the instance.
QueriedPermissionSetsFallback(listed) == IF listed = <<>> THEN <<"ps-1", "ps-2">> ELSE listed

\* The permission sets get_all_account_assignments asks the assignments of
\* (auditor.py, 210-213).
QueriedPermissionSets(listed) == listed

\* Mutant: the records are counted after deduplication.
TotalAssignmentsDistinct(assignments) == Cardinality(Range(assignments))

\* len(assignments) (auditor.py, 148).
TotalAssignments(assignments) == Len(assignments)

GroupNames(groups) == [i \in 1..Len(groups) |-> groups[i].val.DisplayName]

\* Mutant: a permission set without a Name is left out of the name list.
PermissionSetNamesNamedOnly(psets) ==
    LET named == SelectSeq(psets, LAMBDA e : "Name" \in DOMAIN e.val)
    IN  [i \in 1..Len(named) |-> named[i].val.Name]

PermissionSetNames(psets) ==
    [i \in 1..Len(psets) |->
        IF "Name" \in DOMAIN psets[i].val THEN psets[i].val.Name ELSE "Unknown"]

\* Mutant: total_permission_sets counts the permission sets provisioned to the account.
ReportCountingProvisioned(account, assignments, groups, psets) ==
    [metadata |-> [account_id |-> account,
                   sso_instance_arn |-> instance_arn,
                   identity_store_id |-> identity_store_id,
                   auditor_version |-> auditor_version,
                   config |-> [aws_region |-> aws_region,
                               output_formats |-> output_formats]],
     sso_groups_summary |-> GroupNames(groups),
     sso_permission_sets_summary |-> PermissionSetNames(psets),
     sso_groups |-> Values(groups),
     permission_sets |-> Values(psets),
     summary |-> [total_groups |-> Len(groups),
                  total_permission_sets |-> Len(permission_sets),
                  total_assignments |-> TotalAssignments(assignments)]]

\* The report (auditor.py, 120-150); generated_at is the wall clock and is left out.
Report(account, assignments, groups, psets) ==
    [metadata |-> [account_id |-> account,
                   sso_instance_arn |-> instance_arn,
                   identity_store_id |-> identity_store_id,
                   auditor_version |-> auditor_version,
                   config |-> [aws_region |-> aws_region,
                               output_formats |-> output_formats]],
     sso_groups_summary |-> GroupNames(groups),
     sso_permission_sets_summary |-> PermissionSetNames(psets),
     sso_groups |-> Values(groups),
     permission_sets |-> Values(psets),
     summary |-> [total_groups |-> Len(groups),
                  total_permission_sets |-> Len(psets),
                  total_assignments |-> TotalAssignments(assignments)]]

\* The keys the loop body reads from a record, in reading order (auditor.py, 72-74).
RequiredKeys == <<"PrincipalType", "PrincipalId", "PermissionSetArn">>

\* The exception of dict[key] on a dict without the key.
KeyError(key) == [type |-> "KeyError", key |-> key]

\* The first key the loop body fails to read from a record, null when it reads all three.
MissingKey(assignment) ==
    LET missing == SelectSeq(RequiredKeys, LAMBDA k : k \notin DOMAIN assignment)
    IN  IF missing = <<>> THEN null ELSE missing[1]

\* Mutant: the permission-set part does not look whether it was seen before.
AfterGroupStageRefetching(assignment, psets) == "permission_set"

\* Where the loop body of audit_account starts for a record, and where it goes
\* on after the group part: "end" when no provider call is left in the body.
AfterGroupStage(assignment, psets) ==
    IF HasKey(psets, assignment.PermissionSetArn) THEN "end" ELSE "permission_set"

\* Mutant: the group part does not look whether the group was seen before.
FirstStageRefetching(assignment, groups, psets) ==
    IF assignment.PrincipalType = "GROUP" THEN "group"
    ELSE AfterGroupStage(assignment, psets)

FirstStage(assignment, groups, psets) ==
    IF assignment.PrincipalType = "GROUP"
    THEN IF HasKey(groups, assignment.PrincipalId) THEN "group_permission_set" ELSE "group"
    ELSE AfterGroupStage(assignment, psets)

\* The first record from i on whose loop body calls the provider.  The body of
\* any other record (a USER record of a permission set already seen) takes
\* none of the branches at auditor.py 76, 99 and 111 and changes nothing.
RECURSIVE NextCalling(_, _, _, _)
NextCalling(i, assignments, groups, psets) ==
    IF i > Len(assignments) THEN i
    ELSE IF MissingKey(assignments[i]) # null THEN i
    ELSE IF FirstStage(assignments[i], groups, psets) = "end"
         THEN NextCalling(i + 1, assignments, groups, psets)
         ELSE i

\* Mutant: a record that lacks a key ends the loop, and the report of the
\* records before it is returned.
LoopAtReportingPartial(i, assignments, groups, psets) ==
    LET j == NextCalling(i, assignments, groups, psets)
    IN  IF j > Len(assignments) \/ MissingKey(assignments[j]) # null
        THEN /\ pc' = "done" /\ idx' = j /\ stage' = "none"
             /\ result' = Report(account_id, SubSeq(assignments, 1, j - 1), groups, psets)
             /\ error' = error
        ELSE /\ pc' = "process" /\ idx' = j
             /\ stage' = FirstStage(assignments[j], groups, psets)
             /\ result' = result
             /\ error' = error

\* The loop over assignments from record i on, up to its next provider call;
\* past the last record the report is built and returned (auditor.py, 71,
\* 120-153); at a record that lacks a key the body raises (auditor.py, 72-74)
\* and the run ends in the except clause (auditor.py, 155-157).
LoopAt(i, assignments, groups, psets) ==
    LET j == NextCalling(i, assignments, groups, psets)
    IN  IF j > Len(assignments)
        THEN /\ pc' = "done" /\ idx' = j /\ stage' = "none"
             /\ result' = Report(account_id, assignments, groups, psets)
             /\ error' = error
        ELSE IF MissingKey(assignments[j]) # null
        THEN /\ pc' = "failed" /\ idx' = j /\ stage' = "none"
             /\ result' = result
             /\ error' = AWSSSOAuditorError(account_id, KeyError(MissingKey(assignments[j])))
        ELSE /\ pc' = "process" /\ idx' = j
             /\ stage' = FirstStage(assignments[j], groups, psets)
             /\ result' = result
             /\ error' = error

\* get_all_account_assignments, first part (auditor.py, 207-210).
GetPermissionSetsForAccount ==
    /\ pc = "list_permission_sets"
    /\ UNCHANGED cli_vars
    /\ \E listing \in DistinctSeq(PermissionSetArns, MaxProvisioned) :
       \E pages \in Splits(listing, MaxPages) :
       \E failAt \in 0..(Len(pages) + 1) :
          LET failed == failAt <= Len(pages)
              r == get_permission_sets_for_account(pages, failAt)
          IN  /\ failed => failures < MaxFailures
              /\ failures' = failures + (IF failed THEN 1 ELSE 0)
              /\ provisioned' = [called |-> TRUE, failed |-> failed,
                                 listing |-> IF failed THEN <<>> ELSE listing]
              /\ UNCHANGED <<fetched, memberships, lookups, group_ps_log, account_id>>
              /\ IF r.raised
                 THEN Fails(r.exc)
                 ELSE /\ permission_sets' = r.val
                      /\ UNCHANGED <<all_assignments, groups_data, permission_sets_data>>
                      /\ IF QueriedPermissionSets(r.val) = <<>>
                         THEN /\ ps_idx' = 0
                              /\ LoopAt(1, all_assignments, groups_data, permission_sets_data)
                         ELSE /\ pc' = "list_assignments" /\ ps_idx' = 1
                              /\ UNCHANGED <<idx, stage, result, error>>

\* get_all_account_assignments, one turn of its loop (auditor.py, 213-217).
GetAccountAssignmentsForPermissionSet ==
    /\ pc = "list_assignments"
    /\ UNCHANGED cli_vars
    /\ LET queried == QueriedPermissionSets(permission_sets)
           arn == queried[ps_idx]
       IN  \E principals \in BoundedSeq(Principals, MaxAssignments - Len(all_assignments)) :
           \E pages \in Splits([i \in 1..Len(principals) |->
                                   AssignmentRecord(principals[i], arn, account_id)], MaxPages) :
           \E failAt \in 0..(Len(pages) + 1) :
              LET failed == failAt <= Len(pages)
                  r == get_account_assignments_for_permission_set(pages, failAt)
              IN  /\ failed => failures < MaxFailures
                  /\ failures' = failures + (IF failed THEN 1 ELSE 0)
                  /\ fetched' = Append(fetched, [arn |-> arn, failed |-> failed,
                                   records |-> IF failed THEN <<>> ELSE Concat(pages)])
                  /\ UNCHANGED <<provisioned, memberships, lookups, group_ps_log, account_id>>
                  /\ IF r.raised
                     THEN Fails(r.exc)
                     ELSE /\ all_assignments' = all_assignments \o r.val
                          /\ UNCHANGED <<permission_sets, groups_data, permission_sets_data>>
                          /\ IF ps_idx < Len(queried)
                             THEN /\ ps_idx' = ps_idx + 1 /\ pc' = "list_assignments"
                                  /\ UNCHANGED <<idx, stage, result, error>>
                             ELSE /\ ps_idx' = ps_idx
                                  /\ LoopAt(1, all_assignments', groups_data,
                                            permission_sets_data)

\* Mutant: the members enumerated are not stored with the group.
GroupEntryMembersDropped(group_details, group_members) ==
    [Members |-> <<>>, PermissionSets |-> <<>>] @@ group_details

\* The entry audit_account stores for a group on first sight (auditor.py, 81-85).
GroupEntry(group_details, group_members) ==
    [Members |-> group_members, PermissionSets |-> <<>>] @@ group_details

\* The record appended under a group (auditor.py, 91-94).
PermissionSetFullDetails(permission_set_details, permission_set_policies) ==
    [Policies |-> permission_set_policies] @@ permission_set_details

\* The entry stored for a permission set on first sight (auditor.py, 105-109).
PermissionSetEntry(permission_set_details, permission_set_policies) ==
    [Policies |-> permission_set_policies, AssignedGroups |-> <<>>] @@ permission_set_details

\* Mutant: a record equal to one already under the group is not appended again.
AppendPermissionSetDeduplicated(groups, principal_id, full_details) ==
    LET g == DictGet(groups, principal_id)
    IN  IF full_details \in Range(g.PermissionSets) THEN groups
        ELSE DictSet(groups, principal_id,
                     [g EXCEPT !.PermissionSets = Append(g.PermissionSets, full_details)])

\* groups_data[principal_id]["PermissionSets"].append(...) (auditor.py, 96).
AppendPermissionSet(groups, principal_id, full_details) ==
    LET g == DictGet(groups, principal_id)
    IN  DictSet(groups, principal_id,
                [g EXCEPT !.PermissionSets = Append(g.PermissionSets, full_details)])

\* Mutant: only the first group assigned to a permission set is listed.
AddAssignedGroupFirstOnly(psets, permission_set_arn, principal_id) ==
    LET ps == DictGet(psets, permission_set_arn)
    IN  IF ps.AssignedGroups # <<>> THEN psets
        ELSE DictSet(psets, permission_set_arn,
                     [ps EXCEPT !.AssignedGroups = Append(ps.AssignedGroups, principal_id)])

\* Mutant: the append without the membership check.
AddAssignedGroupUnchecked(psets, permission_set_arn, principal_id) ==
    LET ps == DictGet(psets, permission_set_arn)
    IN  DictSet(psets, permission_set_arn,
                [ps EXCEPT !.AssignedGroups = Append(ps.AssignedGroups, principal_id)])

\* The guarded append to AssignedGroups (auditor.py, 111-118).
AddAssignedGroup(psets, permission_set_arn, principal_id) ==
    LET ps == DictGet(psets, permission_set_arn)
    IN  IF principal_id \in Range(ps.AssignedGroups) THEN psets
        ELSE DictSet(psets, permission_set_arn,
                     [ps EXCEPT !.AssignedGroups = Append(ps.AssignedGroups, principal_id)])

\* Mutant: the back-reference is appended for a record of any principal type.
EndOfBodyAnyPrincipal(groups, psets) ==
    LET a == all_assignments[idx]
        withGroup == AddAssignedGroup(psets, a.PermissionSetArn, a.PrincipalId)
    IN  /\ permission_sets_data' = withGroup
        /\ LoopAt(idx + 1, all_assignments, groups, withGroup)

\* The end of the loop body for record idx, once its provider calls are made:
\* the back-reference of a GROUP record, then the rest of the loop
\* (auditor.py, 111-118 and 71).
EndOfBody(groups, psets) ==
    LET a == all_assignments[idx]
        withGroup == IF a.PrincipalType = "GROUP"
                     THEN AddAssignedGroup(psets, a.PermissionSetArn, a.PrincipalId)
                     ELSE psets
    IN  /\ permission_sets_data' = withGroup
        /\ LoopAt(idx + 1, all_assignments, groups, withGroup)

FailureCount(flags) == Cardinality({i \in 1..Len(flags) : flags[i]})

\* Loop body, first sight of a group (auditor.py, 76-85).
ProcessGroupFirstSight ==
    /\ pc = "process" /\ stage = "group"
    /\ UNCHANGED cli_vars
    /\ LET principal_id == all_assignments[idx].PrincipalId
       IN  \E gdFails \in BOOLEAN :
           \E users \in {GroupMemberships(principal_id)} :
           \E pages \in Splits([i \in 1..Len(users) |-> Membership(principal_id, users[i])],
                               MaxPages) :
           \E failAt \in 0..(Len(pages) + 1) :
           \E userFails \in SUBSET Range(users) :
              LET p == Paginate(pages, failAt)
                  readUsers == [i \in 1..Len(p.read) |-> p.read[i].MemberId.UserId]
                  userFlags == [i \in 1..Len(readUsers) |-> readUsers[i] \in userFails]
                  group_details == get_group_details(principal_id, gdFails)
                  group_members == get_group_members(principal_id, pages, failAt, userFails)
              IN  /\ userFails \subseteq Range(readUsers)
                  /\ failures' = failures + FailureCount(<<gdFails, p.raised>> \o userFlags)
                  /\ failures' <= MaxFailures
                  /\ memberships' = Append(memberships,
                        [group |-> principal_id, failed |-> p.raised,
                         users |-> IF p.raised THEN <<>> ELSE users,
                         userFails |-> IF p.raised THEN {} ELSE userFails])
                  /\ lookups' = lookups
                        \o <<[op |-> "describe_group", id |-> principal_id, failed |-> gdFails,
                              at |-> stage],
                             [op |-> "list_group_memberships", id |-> principal_id,
                              failed |-> p.raised, at |-> stage]>>
                        \o [i \in 1..Len(readUsers) |->
                              [op |-> "describe_user", id |-> readUsers[i],
                               failed |-> userFlags[i], at |-> stage]]
                  /\ UNCHANGED <<provisioned, fetched, group_ps_log, account_id>>
                  /\ IF group_details.raised \/ group_members.raised
                     THEN Fails(IF group_details.raised THEN group_details.exc
                                ELSE group_members.exc)
                     ELSE /\ groups_data' = DictSet(groups_data, principal_id,
                                   GroupEntry(group_details.val, group_members.val))
                          /\ pc' = "process" /\ stage' = "group_permission_set"
                          /\ UNCHANGED <<permission_sets, ps_idx, all_assignments, idx,
                                         permission_sets_data, result, error>>

\* Loop body, the permission set recorded under the group (auditor.py, 87-96),
\* and the rest of the body when the permission set was seen before.
ProcessGroupPermissionSet ==
    /\ pc = "process" /\ stage = "group_permission_set"
    /\ UNCHANGED cli_vars
    /\ LET principal_id == all_assignments[idx].PrincipalId
           permission_set_arn == all_assignments[idx].PermissionSetArn
       IN  \E psFails \in BOOLEAN :
           \E mode \in PolicyModes :
              LET permission_set_details ==
                      get_permission_set_details(permission_set_arn, psFails)
                  permission_set_policies ==
                      get_permission_set_policies(permission_set_arn, mode)
              IN  /\ failures' = failures + FailureCount(<<psFails, mode # "ok">>)
                  /\ failures' <= MaxFailures
                  /\ lookups' = lookups
                        \o <<[op |-> "describe_permission_set", id |-> permission_set_arn,
                              failed |-> psFails, at |-> stage],
                             [op |-> "permission_set_policies", id |-> permission_set_arn,
                              failed |-> mode # "ok", at |-> stage]>>
                  /\ UNCHANGED <<provisioned, fetched, memberships, account_id>>
                  /\ IF permission_set_details.raised \/ permission_set_policies.raised
                     THEN /\ Fails(IF permission_set_details.raised
                                   THEN permission_set_details.exc
                                   ELSE permission_set_policies.exc)
                          /\ UNCHANGED group_ps_log
                     ELSE /\ groups_data' = AppendPermissionSet(groups_data, principal_id,
                                   PermissionSetFullDetails(permission_set_details.val,
                                                            permission_set_policies.val))
                          /\ group_ps_log' = Append(group_ps_log,
                                                    <<principal_id, permission_set_arn>>)
                          /\ UNCHANGED <<permission_sets, ps_idx, all_assignments>>
                          /\ IF AfterGroupStage(all_assignments[idx], permission_sets_data)
                                  = "permission_set"
                             THEN /\ pc' = "process" /\ stage' = "permission_set"
                                  /\ UNCHANGED <<idx, permission_sets_data, result, error>>
                             ELSE EndOfBody(groups_data', permission_sets_data)

\* Loop body, first sight of a permission set (auditor.py, 98-109), and the
\* rest of the body.
ProcessPermissionSetFirstSight ==
    /\ pc = "process" /\ stage = "permission_set"
    /\ UNCHANGED cli_vars
    /\ LET permission_set_arn == all_assignments[idx].PermissionSetArn
       IN  \E psFails \in BOOLEAN :
           \E mode \in PolicyModes :
              LET permission_set_details ==
                      get_permission_set_details(permission_set_arn, psFails)
                  permission_set_policies ==
                      get_permission_set_policies(permission_set_arn, mode)
              IN  /\ failures' = failures + FailureCount(<<psFails, mode # "ok">>)
                  /\ failures' <= MaxFailures
                  /\ lookups' = lookups
                        \o <<[op |-> "describe_permission_set", id |-> permission_set_arn,
                              failed |-> psFails, at |-> stage],
                             [op |-> "permission_set_policies", id |-> permission_set_arn,
                              failed |-> mode # "ok", at |-> stage]>>
                  /\ UNCHANGED <<provisioned, fetched, memberships, group_ps_log, account_id>>
                  /\ IF permission_set_details.raised \/ permission_set_policies.raised
                     THEN Fails(IF permission_set_details.raised
                                THEN permission_set_details.exc
                                ELSE permission_set_policies.exc)
                     ELSE /\ UNCHANGED <<permission_sets, ps_idx, all_assignments,
                                         groups_data>>
                          /\ EndOfBody(groups_data,
                                DictSet(permission_sets_data, permission_set_arn,
                                        PermissionSetEntry(permission_set_details.val,
                                                           permission_set_policies.val)))

Next ==
    \/ GetPermissionSetsForAccount
    \/ GetAccountAssignmentsForPermissionSet
    \/ ProcessGroupFirstSight
    \/ ProcessGroupPermissionSet
    \/ ProcessPermissionSetFirstSight

Spec == Init /\ [][Next]_vars

(***************************************************************************)
(* The assignment loop of audit_account on whatever the provider hands     *)
(* over: the listings returned records some of which lack a key the loop   *)
(* body reads.                                                             *)
(***************************************************************************)
RecordShapes == Principals \cup {[lacks |-> RequiredKeys[k]] : k \in 1..Len(RequiredKeys)}

ProviderRecord(shape, arn, account) ==
    IF "lacks" \in DOMAIN shape
    THEN LET full == AssignmentRecord([type |-> "GROUP", id |-> "g-1"], arn, account)
         IN  [k \in DOMAIN full \ {shape.lacks} |-> full[k]]
    ELSE AssignmentRecord(shape, arn, account)

ProviderRecords(shapes, arn, account) ==
    [i \in 1..Len(shapes) |-> ProviderRecord(shapes[i], arn, account)]

\* audit_account when get_all_account_assignments has returned (auditor.py, 63):
\* both permission sets are provisioned and both listings succeeded.
LoopInit ==
    /\ pc = "loop"
    /\ account_id \in AccountIds
    /\ permission_sets = <<"ps-1", "ps-2">>
    /\ ps_idx = 2
    /\ \E first \in BoundedSeq(RecordShapes, MaxAssignments) :
       \E second \in BoundedSeq(RecordShapes, MaxAssignments - Len(first)) :
          /\ fetched = <<[arn |-> "ps-1", failed |-> FALSE,
                          records |-> ProviderRecords(first, "ps-1", account_id)],
                         [arn |-> "ps-2", failed |-> FALSE,
                          records |-> ProviderRecords(second, "ps-2", account_id)]>>
          /\ all_assignments = fetched[1].records \o fetched[2].records
    /\ idx = 0
    /\ stage = "none"
    /\ groups_data = <<>>
    /\ permission_sets_data = <<>>
    /\ result = NoResult
    /\ error = NoError
    /\ failures = 0
    /\ provisioned = [called |-> TRUE, failed |-> FALSE, listing |-> permission_sets]
    /\ memberships = <<>>
    /\ lookups = <<>>
    /\ group_ps_log = <<>>
    /\ cli_pc = "library"
    /\ argv = NoSettings
    /\ environ = NoSettings
    /\ aws = DefaultAWS
    /\ config = Config(NoSettings, NoSettings)
    /\ aws_manager = AWSSSOAuditor(config, NullOutputSink, aws).out.val
    /\ calls = <<>>
    /\ files = <<>>
    /\ saved_files = <<>>
    /\ console = <<>>
    /\ outcome = Running

\* The loop is entered (auditor.py, 66-71).
StartLoop ==
    /\ pc = "loop"
    /\ UNCHANGED cli_vars
    /\ UNCHANGED <<account_id, permission_sets, ps_idx, all_assignments, groups_data,
                   permission_sets_data, history>>
    /\ LoopAt(1, all_assignments, groups_data, permission_sets_data)

LoopNext ==
    \/ StartLoop
    \/ ProcessGroupFirstSight
    \/ ProcessGroupPermissionSet
    \/ ProcessPermissionSetFirstSight

LoopSpec == LoopInit /\ [][LoopNext]_vars

(***************************************************************************)
(* The command line (aws_access_auditor/cli.py), the output sink           *)
(* (shared/output_sink.py) and the formatter (aws_sso_auditor/             *)
(* formatters.py).                                                         *)
(***************************************************************************)
MaxFlags == 2     \* options given on one command line
MaxEnv == 2       \* environment variables set for one run
MaxFormats == 2   \* entries of output_formats in a configuration built by a library caller

\* The options of create_parser (cli.py, 39-66).  A store_true option is
\* on the command line or not; its value here is its own token.
OptionValues ==
    [output_format |-> {"json", "yaml", "both"},
     output_dir |-> {"/cli/dir"},
     aws_region |-> {"ap-southeast-1"},
     aws_profile |-> {"cli-profile"},
     quiet |-> {"--quiet"},
     debug |-> {"--debug"},
     no_timestamp |-> {"--no-timestamp"}]

\* The environment variables Config reads (config.py, 35-42).
EnvValues ==
    [AWS_REGION |-> {"eu-west-1"},
     AWS_PROFILE |-> {"env-profile"},
     AWS_ACCESS_AUDITOR_OUTPUT_DIR |-> {"/env/dir"},
     AWS_ACCESS_AUDITOR_DEBUG |-> {"True", "1"},
     AWS_ACCESS_AUDITOR_QUIET |-> {"true", "1"}]

\* The mappings that set at most n of the names of values, each to one of its values.
Settings(values, n) ==
    UNION {{f \in [S -> UNION {values[k] : k \in S}] : \A k \in S : f[k] \in values[k]} :
           S \in {T \in SUBSET DOMAIN values : Cardinality(T) <= n}}

\* parser.parse_args (cli.py, 39-66, 74): the defaults of the options not given.
parse_args(account, args) ==
    LET option(name, default) == IF name \in DOMAIN args THEN args[name] ELSE default IN
    [account_id |-> account,
     output_format |-> option("output_format", "both"),
     output_dir |-> option("output_dir", "./aws-sso-audit-results"),
     aws_region |-> option("aws_region", "us-east-1"),
     aws_profile |-> option("aws_profile", null),
     quiet |-> "quiet" \in DOMAIN args,
     debug |-> "debug" \in DOMAIN args,
     no_timestamp |-> "no_timestamp" \in DOMAIN args]

\* The keyword arguments main gives to Config (cli.py, 81-93).
MainConfigArguments(parsed_args) ==
    [aws_region |-> parsed_args.aws_region,
     aws_profile |-> parsed_args.aws_profile,
     output_formats |-> IF parsed_args.output_format # "both"
                        THEN <<parsed_args.output_format>> ELSE <<"json", "yaml">>,
     output_directory |-> parsed_args.output_dir,
     include_timestamp |-> ~parsed_args.no_timestamp,
     debug |-> parsed_args.debug,
     quiet |-> parsed_args.quiet]

\* OutputSink (shared/output_sink.py): each method gives the lines it writes.
OutputSink(quiet, debug) == [quiet |-> quiet, debug |-> debug]
Line(stream, text) == [stream |-> stream, text |-> text]
OutputSink_info(sink, message) ==
    IF ~sink.quiet THEN <<Line("stdout", message)>> ELSE <<>>
OutputSink_success(sink, message) ==
    IF ~sink.quiet THEN <<Line("stdout", message)>> ELSE <<>>
OutputSink_error(sink, message) == <<Line("stderr", message)>>
OutputSink_debug_info(sink, message) ==
    IF sink.debug /\ ~sink.quiet THEN <<Line("stdout", message)>> ELSE <<>>
\* Mutant: progress looks at debug only.
OutputSink_progress_debug_only(sink, message) ==
    IF sink.debug THEN <<Line("stdout", message)>> ELSE <<>>
OutputSink_progress(sink, message) ==
    IF sink.debug /\ ~sink.quiet THEN <<Line("stdout", message)>> ELSE <<>>
OutputSink_separator(sink) ==
    IF ~sink.quiet THEN <<Line("stdout", "====")>> ELSE <<>>
OutputSink_print_raw(sink, message, file) ==
    IF file = "sys.stderr" THEN <<Line("stderr", message)>>
    ELSE IF ~sink.quiet THEN <<Line("stdout", message)>> ELSE <<>>
OutputSink_warning(sink, message) ==
    IF ~sink.quiet THEN <<Line("stdout", message)>> ELSE <<>>

\* The methods of the sink (shared/output_sink.py, 15-56) and the values of
\* the file argument of print_raw; a library caller calls any of them.
SinkMethods ==
    {"info", "success", "warning", "error", "debug_info", "progress", "separator",
     "print_raw"}
SinkFiles == {null, "sys.stdout", "sys.stderr"}

OutputSink_call(sink, method, message, file) ==
    CASE method = "info" -> OutputSink_info(sink, message)
      [] method = "success" -> OutputSink_success(sink, message)
      [] method = "warning" -> OutputSink_warning(sink, message)
      [] method = "error" -> OutputSink_error(sink, message)
      [] method = "debug_info" -> OutputSink_debug_info(sink, message)
      [] method = "progress" -> OutputSink_progress(sink, message)
      [] method = "separator" -> OutputSink_separator(sink)
      [] method = "print_raw" -> OutputSink_print_raw(sink, message, file)

\* "_".join(parts) and ", ".join(parts).
RECURSIVE join(_, _)
join(sep, parts) ==
    IF parts = <<>> THEN ""
    ELSE IF Len(parts) = 1 THEN parts[1]
    ELSE parts[1] \o sep \o join(sep, Tail(parts))

\* datetime.now().strftime("%Y%m%d_%H%M%S") at the time of the run.
strftime_now == "20240101_120000"

\* Mutant: the timestamp part is joined in even when it is empty.
SavePathAlwaysStamped(cfg, account, timestamp, extension) ==
    cfg.output_directory \o "/"
        \o join("_", <<"aws_sso_audit", account, timestamp>>) \o extension

\* The path _save_json and _save_yaml write (formatters.py, 56-63, 71-78).
SavePath(cfg, account, timestamp, extension) ==
    LET filename_parts == IF timestamp # "" THEN <<"aws_sso_audit", account, timestamp>>
                          ELSE <<"aws_sso_audit", account>>
        filename == join("_", filename_parts) \o extension
    IN  cfg.output_directory \o "/" \o filename

\* The files save_results sets out to write, in order (formatters.py, 37-54).
RECURSIVE SaveTargets(_, _, _, _)
SaveTargets(cfg, account, timestamp, formats) ==
    IF formats = <<>> THEN <<>>
    ELSE LET format_type == Head(formats)
             json_file == IF format_type \in {"json", "both"}
                          THEN <<[path |-> SavePath(cfg, account, timestamp, ".json"),
                                  format |-> "json"]>>
                          ELSE <<>>
             yaml_file == IF format_type \in {"yaml", "both"}
                          THEN <<[path |-> SavePath(cfg, account, timestamp, ".yaml"),
                                  format |-> "yaml"]>>
                          ELSE <<>>
         IN  json_file \o yaml_file \o SaveTargets(cfg, account, timestamp, Tail(formats))

\* Mutant: a failure removes the files written before it.
save_results_rolling_back(cfg, account, failAt) ==
    LET timestamp == IF cfg.include_timestamp THEN strftime_now ELSE ""
        targets == SaveTargets(cfg, account, timestamp, cfg.output_formats)
    IN  IF failAt <= Len(targets)
        THEN [written |-> <<>>,
              out |-> Exc(Exception("OSError", "cannot open " \o targets[failAt].path))]
        ELSE [written |-> targets,
              out |-> Ret([i \in 1..Len(targets) |-> targets[i].path])]

\* OutputFormatter.save_results (formatters.py, 37-54); the failAt-th open
\* raises, none when failAt exceeds the number of files.  written is what
\* reached the disk, out the list returned or the exception raised.
save_results(cfg, account, failAt) ==
    LET timestamp == IF cfg.include_timestamp THEN strftime_now ELSE ""
        targets == SaveTargets(cfg, account, timestamp, cfg.output_formats)
    IN  IF failAt <= Len(targets)
        THEN [written |-> SubSeq(targets, 1, failAt - 1),
              out |-> Exc(Exception("OSError", "cannot open " \o targets[failAt].path))]
        ELSE [written |-> targets,
              out |-> Ret([i \in 1..Len(targets) |-> targets[i].path])]

\* OutputFormatter.display_results (formatters.py, 86-96), with the sink main gives it.
display_results(cfg, sink) ==
    IF cfg.quiet THEN <<>>
    ELSE OutputSink_separator(sink) \o OutputSink_info(sink, "AWS SSO AUDIT RESULTS")
         \o OutputSink_separator(sink) \o OutputSink_print_raw(sink, "<json of the report>", null)

Returns(code) == [kind |-> "returned", code |-> code]
Escapes(exc) == [kind |-> "escaped", exc |-> exc]
NoConfig == [none |-> TRUE]

\* The two handlers of main (cli.py, 130-137): the error is written to the
\* error channel and main returns 1.
Handled(exc, written) ==
    LET sink == OutputSink(config.quiet, config.debug)
        message == IF exc.type \in AWSSSOAuditorErrors
                   THEN "AWS SSO Auditor Error: " \o exc.message
                   ELSE "Unexpected error: " \o exc.message
    IN  /\ console' = written \o OutputSink_error(sink, message)
        /\ outcome' = Returns(1)
        /\ cli_pc' = "exit"

\* What the provider may answer during construction: one of the instance
\* listings, or one failing call.  The answers are fixed for the run.
OtherInstance ==
    [InstanceArn |-> "arn:aws:sso:::instance/ssoins-2", IdentityStoreId |-> "d-2"]

InstanceListings ==
    LET first == DefaultAWS.Instances[1]
    IN  {<<>>, <<first>>, <<first, OtherInstance>>, <<OtherInstance, first>>,
         <<[InstanceArn |-> first.InstanceArn]>>}

AWSAnswers ==
    {[DefaultAWS EXCEPT !.Instances = listing] : listing \in InstanceListings}
    \cup {[DefaultAWS EXCEPT !.session_ok = FALSE],
          [DefaultAWS EXCEPT !.listing_fails = TRUE],
          [DefaultAWS EXCEPT !.sts_ok = FALSE]}
    \cup {[DefaultAWS EXCEPT !.failing_client = Services[i]] : i \in 1..Len(Services)}

\* The configurations a library caller builds: Config(output_formats=..., timeout=...).
FormatNames == {"json", "yaml", "both", "xml"}
Timeouts == {-1, 0, 1, 30}
LibraryArguments ==
    {[output_formats |-> f, timeout |-> t] :
        f \in BoundedSeq(FormatNames, MaxFormats), t \in Timeouts}

\* A run starts at main(argv), at AWSSSOAuditor(Config(...)) called from a
\* library, or at a library caller that writes through an OutputSink.
CliInit ==
    /\ cli_pc \in {"main", "library_start", "sink_start"}
    /\ argv \in (IF cli_pc = "main" THEN Settings(OptionValues, MaxFlags) ELSE {NoSettings})
    /\ environ \in (IF cli_pc = "sink_start" THEN {NoSettings}
                    ELSE Settings(EnvValues, MaxEnv))
    /\ aws \in (IF cli_pc = "sink_start" THEN {DefaultAWS} ELSE AWSAnswers)
    /\ config = NoConfig
    /\ aws_manager = NoManager
    /\ calls = <<>>
    /\ files = <<>>
    /\ saved_files = <<>>
    /\ console = <<>>
    /\ outcome = Running
    /\ pc = "not_called"
    /\ account_id \in AccountIds
    /\ permission_sets = <<>>
    /\ ps_idx = 0
    /\ all_assignments = <<>>
    /\ idx = 0
    /\ stage = "none"
    /\ groups_data = <<>>
    /\ permission_sets_data = <<>>
    /\ result = NoResult
    /\ error = NoError
    /\ failures = 0
    /\ provisioned = [called |-> FALSE, failed |-> FALSE, listing |-> <<>>]
    /\ fetched = <<>>
    /\ memberships = <<>>
    /\ lookups = <<>>
    /\ group_ps_log = <<>>

\* main up to the try (cli.py, 73-96): parse_args, setup_logging, Config,
\* OutputSink.  setup_logging opens aws_access_auditor.log in the working
\* directory (cli.py, 25-29), which raises when the file cannot be opened.
Main_Configure ==
    /\ cli_pc = "main"
    /\ UNCHANGED <<audit_vars, argv, environ, aws, aws_manager, files, saved_files, console>>
    /\ calls' = Append(calls, "setup_logging")
    /\ \E log_opens \in BOOLEAN :
          IF log_opens
          THEN /\ config' = Config(MainConfigArguments(parse_args(account_id, argv)), environ)
               /\ cli_pc' = "auditor"
               /\ outcome' = outcome
          ELSE /\ config' = config
               /\ cli_pc' = "exit"
               /\ outcome' = Escapes(Exception("OSError",
                                               "cannot open aws_access_auditor.log"))

\* AWSSSOAuditor(config, output) (cli.py, 100-101).
Main_InitAuditor ==
    /\ cli_pc = "auditor"
    /\ UNCHANGED <<audit_vars, argv, environ, aws, config, files, saved_files>>
    /\ LET output == OutputSink(config.quiet, config.debug)
           auditor == AWSSSOAuditor(config, output, aws)
           written == console
                      \o OutputSink_progress(output, "Initializing AWS SSO Auditor...")
                      \o auditor.lines
       IN  /\ calls' = calls \o <<"AWSSSOAuditor">> \o auditor.calls
           /\ IF auditor.out.raised
              THEN /\ Handled(auditor.out.exc, written)
                   /\ aws_manager' = aws_manager
              ELSE /\ aws_manager' = auditor.out.val
                   /\ console' = written
                   /\ cli_pc' = "formatter"
                   /\ outcome' = outcome

\* OutputFormatter(config, output) (cli.py, 102; formatters.py, 20-35):
\* os.makedirs may raise, and the constructor lets it through.
Main_InitFormatter ==
    /\ cli_pc = "formatter"
    /\ UNCHANGED <<audit_vars, argv, environ, aws, config, aws_manager, files, saved_files>>
    /\ calls' = Append(calls, "OutputFormatter")
    /\ \E makedirs_ok \in BOOLEAN :
          IF makedirs_ok
          THEN /\ cli_pc' = "audit" /\ UNCHANGED <<console, outcome>>
          ELSE Handled(Exception("OSError", "cannot create " \o config.output_directory),
                       console)

\* Mutant: main goes on to save after audit_account raised.
Main_AuditAccountGoingOn ==
    /\ cli_pc = "audit"
    /\ UNCHANGED <<account_id, permission_sets, ps_idx, all_assignments, idx, stage,
                   groups_data, permission_sets_data, history>>
    /\ UNCHANGED <<argv, environ, aws, config, aws_manager, files, saved_files>>
    /\ calls' = Append(calls, "audit_account")
    /\ console' = console
          \o OutputSink_info(OutputSink(config.quiet, config.debug),
                             "Starting audit for account: " \o account_id)
    /\ cli_pc' = "save"
    /\ outcome' = outcome
    /\ \E raises \in BOOLEAN :
          IF raises
          THEN /\ pc' = "failed"
               /\ error' = AWSSSOAuditorError(account_id, "KeyError")
               /\ result' = result
          ELSE /\ pc' = "done"
               /\ result' = Report(account_id, <<>>, <<>>, <<>>)
               /\ error' = error

\* auditor.audit_account(account_id) (cli.py, 105-108): a report, or the
\* AWSSSOAuditorError audit_account turns every failure into
\* (auditor.py, 155-157).
Main_AuditAccount ==
    /\ cli_pc = "audit"
    /\ UNCHANGED <<account_id, permission_sets, ps_idx, all_assignments, idx, stage,
                   groups_data, permission_sets_data, history>>
    /\ UNCHANGED <<argv, environ, aws, config, aws_manager, files, saved_files>>
    /\ calls' = Append(calls, "audit_account")
    /\ LET output == OutputSink(config.quiet, config.debug)
           written == console
                      \o OutputSink_info(output, "Starting audit for account: " \o account_id)
       IN  \E raises \in BOOLEAN :
              IF raises
              THEN /\ pc' = "failed"
                   /\ error' = AWSSSOAuditorError(account_id, "KeyError")
                   /\ result' = result
                   /\ Handled(Exception("AWSSSOAuditorError",
                                 "Failed to audit account " \o account_id \o ": KeyError"),
                              written)
              ELSE /\ pc' = "done"
                   /\ result' = Report(account_id, <<>>, <<>>, <<>>)
                   /\ error' = error
                   /\ console' = written
                   /\ cli_pc' = "save"
                   /\ outcome' = outcome

\* formatter.save_results(results, account_id) (cli.py, 111-113).
Main_SaveResults ==
    /\ cli_pc = "save"
    /\ UNCHANGED <<audit_vars, argv, environ, aws, config, aws_manager>>
    /\ calls' = Append(calls, "save_results")
    /\ LET output == OutputSink(config.quiet, config.debug)
           written == console \o OutputSink_progress(output, "Saving results to files...")
       IN  \E failAt \in 1..(2 * Len(config.output_formats) + 1) :
              LET saved == save_results(config, account_id, failAt)
                  targets == SaveTargets(config, account_id,
                                 IF config.include_timestamp THEN strftime_now ELSE "",
                                 config.output_formats)
              IN  /\ failAt <= Len(targets) + 1
                  /\ files' = files \o saved.written
                  /\ IF saved.out.raised
                     THEN /\ Handled(saved.out.exc, written)
                          /\ saved_files' = saved_files
                     ELSE /\ saved_files' = saved.out.val
                          /\ console' = written
                          /\ cli_pc' = "display"
                          /\ outcome' = outcome

\* formatter.display_results(results) and the rest of the try (cli.py,
\* 116-128).  Unless quiet, display_results serialises the report after its
\* heading, which may raise.
Main_DisplayResults ==
    /\ cli_pc = "display"
    /\ UNCHANGED <<audit_vars, argv, environ, aws, config, aws_manager, files, saved_files>>
    /\ calls' = Append(calls, "display_results")
    /\ LET output == OutputSink(config.quiet, config.debug)
           shown == display_results(config, output)
       IN  \E dumps_ok \in (IF config.quiet THEN {TRUE} ELSE BOOLEAN) :
              IF dumps_ok
              THEN /\ console' = console \o shown
                        \o OutputSink_success(output,
                               "Results saved to: " \o join(", ", saved_files))
                        \o (IF config.debug
                            THEN OutputSink_debug_info(output,
                                     "Processed 0 groups, 0 permission sets")
                            ELSE <<>>)
                   /\ outcome' = Returns(0)
                   /\ cli_pc' = "exit"
              ELSE Handled(Exception("TypeError", "not serializable"),
                           console \o SubSeq(shown, 1, Len(shown) - 1))

\* A library caller: AWSSSOAuditor(Config(output_formats=..., timeout=...)).
Library_Construct ==
    /\ cli_pc = "library_start"
    /\ UNCHANGED <<audit_vars, argv, environ, aws, files, saved_files, console>>
    /\ \E kwargs \in LibraryArguments :
          LET cfg == Config(kwargs, environ)
              auditor == AWSSSOAuditor(cfg, NullOutputSink, aws)
          IN  /\ config' = cfg
              /\ calls' = calls \o <<"AWSSSOAuditor">> \o auditor.calls
              /\ IF auditor.out.raised
                 THEN /\ outcome' = Escapes(auditor.out.exc)
                      /\ cli_pc' = "exit"
                      /\ aws_manager' = aws_manager
                 ELSE /\ outcome' = outcome
                      /\ cli_pc' = "library"
                      /\ aws_manager' = auditor.out.val

\* A library caller: one call of a method of OutputSink(config.quiet, config.debug).
Library_SinkCall ==
    /\ cli_pc = "sink_start"
    /\ UNCHANGED <<audit_vars, argv, environ, aws, aws_manager, files, saved_files, outcome>>
    /\ \E quiet \in BOOLEAN : \E debug \in BOOLEAN :
       \E method \in SinkMethods :
       \E file \in (IF method = "print_raw" THEN SinkFiles ELSE {null}) :
          LET cfg == Config([quiet |-> quiet, debug |-> debug], environ)
          IN  /\ config' = cfg
              /\ calls' = <<"OutputSink", method, file>>
              /\ console' = console \o OutputSink_call(OutputSink(cfg.quiet, cfg.debug),
                                                       method, "message", file)
              /\ cli_pc' = "sink_done"

CliNext ==
    \/ Library_SinkCall
    \/ Main_Configure
    \/ Main_InitAuditor
    \/ Main_InitFormatter
    \/ Main_AuditAccount
    \/ Main_SaveResults
    \/ Main_DisplayResults
    \/ Library_Construct

CliSpec == CliInit /\ [][CliNext]_vars

(***************************************************************************)
(* Vocabulary of the properties.                                           *)
(***************************************************************************)
Returned == pc = "done"
Raised == pc = "failed"

\* The records the provider handed over in the listings that succeeded, in call order.
RawRecords == Concat([i \in 1..Len(fetched) |-> fetched[i].records])

\* s without the later occurrences of its elements.
RECURSIVE FirstOccurrences(_)
FirstOccurrences(s) ==
    IF s = <<>> THEN <<>>
    ELSE LET front == FirstOccurrences(SubSeq(s, 1, Len(s) - 1))
         IN  IF s[Len(s)] \in Range(front) THEN front ELSE Append(front, s[Len(s)])

IsGroupRecord(a) == a.PrincipalType = "GROUP"

\* The groups assigned to a permission set in the raw sequence, in sequence order.
GroupsAssignedTo(arn) ==
    LET recs == SelectSeq(all_assignments,
                          LAMBDA a : IsGroupRecord(a) /\ a.PermissionSetArn = arn)
    IN  [i \in 1..Len(recs) |-> recs[i].PrincipalId]

HasRepeatedRecord ==
    \E i, j \in 1..Len(all_assignments) : i < j /\ all_assignments[i] = all_assignments[j]

(***************************************************************************)
(* C1: in every returned report, summary.total_assignments is the length of *)
(* the flat raw assignment sequence, which holds every record of every      *)
(* listing that succeeded; GROUP, USER and repeated records all count.      *)
(***************************************************************************)
C1_TotalAssignmentsIsRawLength ==
    Returned =>
        /\ all_assignments = RawRecords
        /\ result.summary.total_assignments = Len(RawRecords)

\* A report over a raw sequence that repeats a record and maps to fewer groups.
C1_Witness ==
    /\ Returned
    /\ HasRepeatedRecord
    /\ result.summary.total_assignments = 2
    /\ result.summary.total_groups + result.summary.total_permission_sets < 3

(***************************************************************************)
(* C2: in every returned report no group identifier occurs in two entries   *)
(* of sso_groups and no permission-set ARN accounts for two entries of      *)
(* permission_sets.                                                         *)
(***************************************************************************)
C2_CollectionsKeyedOnce ==
    Returned =>
        /\ \A i, j \in 1..Len(result.sso_groups) :
              result.sso_groups[i].GroupId = result.sso_groups[j].GroupId => i = j
        /\ \A i, j \in 1..Len(permission_sets_data) :
              permission_sets_data[i].key = permission_sets_data[j].key => i = j
        /\ Len(result.permission_sets) = Len(permission_sets_data)
        /\ Len(result.sso_groups) = Len(groups_data)
        /\ \A i \in 1..Len(result.sso_groups) :
              result.sso_groups[i].GroupId = groups_data[i].key

\* A report over a raw sequence that names the same group and permission set twice.
C2_Witness ==
    /\ Returned
    /\ \E i, j \in 1..Len(all_assignments) :
          /\ i < j
          /\ IsGroupRecord(all_assignments[i])
          /\ all_assignments[i].PrincipalId = all_assignments[j].PrincipalId
          /\ all_assignments[i].PermissionSetArn = all_assignments[j].PermissionSetArn
    /\ Len(result.sso_groups) = 1

(***************************************************************************)
(* C3: in every returned report the AssignedGroups of a permission set      *)
(* holds each group assigned to it once, in order of first occurrence in    *)
(* the raw sequence.                                                        *)
(***************************************************************************)
C3_AssignedGroupsFirstOccurrences ==
    Returned =>
        \A i \in 1..Len(permission_sets_data) :
            /\ result.permission_sets[i].AssignedGroups =
                  FirstOccurrences(GroupsAssignedTo(permission_sets_data[i].key))
            /\ \A m, n \in 1..Len(result.permission_sets[i].AssignedGroups) :
                  result.permission_sets[i].AssignedGroups[m] =
                      result.permission_sets[i].AssignedGroups[n] => m = n

\* A report over a raw sequence that repeats a (group, permission set) pair.
C3_Witness ==
    /\ Returned
    /\ HasRepeatedRecord
    /\ IsGroupRecord(all_assignments[1])
    /\ \E i \in 1..Len(result.permission_sets) :
          result.permission_sets[i].AssignedGroups = <<all_assignments[1].PrincipalId>>

(***************************************************************************)
(* C4: every permission set of the permission_sets collection, and every    *)
(* permission set recorded under a group, is an ARN the provisioned         *)
(* listing returned for the audited account.                                *)
(***************************************************************************)
C4_OnlyProvisionedPermissionSets ==
    /\ \A i \in 1..Len(permission_sets_data) :
          permission_sets_data[i].key \in Range(provisioned.listing)
    /\ \A i \in 1..Len(group_ps_log) : group_ps_log[i][2] \in Range(provisioned.listing)
    /\ Returned =>
          /\ \A i \in 1..Len(result.permission_sets) :
                "PermissionSetArn" \in DOMAIN result.permission_sets[i]
                    => result.permission_sets[i].PermissionSetArn \in Range(provisioned.listing)
          /\ \A g \in 1..Len(result.sso_groups) :
                \A i \in 1..Len(result.sso_groups[g].PermissionSets) :
                    "PermissionSetArn" \in DOMAIN result.sso_groups[g].PermissionSets[i]
                        => result.sso_groups[g].PermissionSets[i].PermissionSetArn
                               \in Range(provisioned.listing)

\* A report with a permission set, for an account to which only one of the
\* permission sets of the instance is provisioned.
C4_Witness ==
    /\ Returned
    /\ Len(provisioned.listing) = 1
    /\ Len(result.permission_sets) = 1
    /\ Len(group_ps_log) >= 1

(***************************************************************************)
(* More vocabulary: the lookups of the history, and the empty report.      *)
(***************************************************************************)
LookupsOf(op, at) == SelectSeq(lookups, LAMBDA l : l.op = op /\ l.at = at)

LookupFailed(op, at, id) ==
    \E i \in 1..Len(lookups) :
        lookups[i].op = op /\ lookups[i].at = at /\ lookups[i].id = id /\ lookups[i].failed

IsEmptyReportFor(r, account) ==
    /\ r.summary = [total_groups |-> 0, total_permission_sets |-> 0, total_assignments |-> 0]
    /\ r.sso_groups = <<>>
    /\ r.permission_sets = <<>>
    /\ r.sso_groups_summary = <<>>
    /\ r.sso_permission_sets_summary = <<>>
    /\ r.metadata.account_id = account

UnknownUser(user_id) ==
    [UserId |-> user_id, UserName |-> "Unknown", DisplayName |-> "Unknown", Email |-> ""]

(***************************************************************************)
(* C5, as the claim states it: when the provisioned listing fails, the run  *)
(* ends with an AWSSSOAuditorError that names the account and wraps the     *)
(* cause, and returns no report.                                            *)
(***************************************************************************)
C5_ListingFailureRaises ==
    (provisioned.failed /\ (Returned \/ Raised)) =>
        /\ Raised
        /\ error.type = "AWSSSOAuditorError"
        /\ error.account_id = account_id
        /\ result = NoResult

(***************************************************************************)
(* C5, amended: when the provisioned listing fails,                         *)
(* get_permission_sets_for_account returns the empty list, so the run       *)
(* raises nothing and returns the empty report of the account.              *)
(***************************************************************************)
C5_ListingFailureYieldsEmptyReport ==
    provisioned.failed =>
        /\ ~Raised
        /\ error = NoError
        /\ permission_sets = <<>>
        /\ all_assignments = <<>>
        /\ Returned
        /\ Returned => IsEmptyReportFor(result, account_id)

\* A run that returned although the provisioned listing failed.
C5_Witness == Returned /\ provisioned.failed /\ result # NoResult

(***************************************************************************)
(* C6: when the assignment listing of a provisioned permission set fails,   *)
(* the run does not raise; the failing permission set contributes no        *)
(* record, and every record of every other listing is in the raw sequence   *)
(* and in the report.                                                       *)
(***************************************************************************)
C6_FailedListingIsSkipped ==
    /\ (\E i \in 1..Len(fetched) : fetched[i].failed) => ~Raised
    /\ pc \in {"process", "done"} =>
          /\ all_assignments = RawRecords
          /\ \A i \in 1..Len(fetched) :
                fetched[i].failed =>
                    \A k \in 1..Len(all_assignments) :
                        all_assignments[k].PermissionSetArn # fetched[i].arn
    /\ Returned =>
          /\ result.summary.total_assignments = Len(RawRecords)
          /\ \A i \in 1..Len(fetched) :
                \A k \in 1..Len(fetched[i].records) :
                    LET a == fetched[i].records[k]
                    IN  /\ a \in Range(all_assignments)
                        /\ HasKey(permission_sets_data, a.PermissionSetArn)
                        /\ IsGroupRecord(a) =>
                              /\ HasKey(groups_data, a.PrincipalId)
                              /\ a.PrincipalId \in
                                    Range(DictGet(permission_sets_data,
                                                  a.PermissionSetArn).AssignedGroups)
                              /\ <<a.PrincipalId, a.PermissionSetArn>> \in Range(group_ps_log)

\* A report after one listing failed and another one returned records.
C6_Witness ==
    /\ Returned
    /\ \E i, j \in 1..Len(fetched) :
          /\ fetched[i].failed
          /\ ~fetched[j].failed
          /\ fetched[j].records # <<>>
    /\ result.summary.total_assignments >= 1

(***************************************************************************)
(* The entry appended under a group by the k-th append of group_ps_log.    *)
(***************************************************************************)
AppendedEntry(k) ==
    LET g == group_ps_log[k][1]
        pos == Cardinality({j \in 1..k : group_ps_log[j][1] = g})
    IN  DictGet(groups_data, g).PermissionSets[pos]

PolicyKeys == {"managed_policies", "customer_managed_policies", "inline_policy"}

(***************************************************************************)
(* C7: whatever per-item lookups fail (describe_group, membership listing,  *)
(* describe_user, describe_permission_set, policy retrieval), the run       *)
(* never raises, stands at a provider call of a record of the raw sequence  *)
(* until it returns, has processed every record when it returns, and holds  *)
(* a placeholder for each failed item.                                      *)
(***************************************************************************)
C7_PerItemFailuresNeverAbort ==
    /\ ~Raised
    /\ ~Returned =>
          \/ pc = "list_permission_sets"
          \/ pc = "list_assignments" /\ ps_idx \in 1..Len(permission_sets)
          \/ /\ pc = "process" /\ idx \in 1..Len(all_assignments)
             /\ stage \in {"group", "group_permission_set", "permission_set"}
    /\ Returned =>
          /\ idx = Len(all_assignments) + 1
          /\ Len(group_ps_log) = Len(SelectSeq(all_assignments, IsGroupRecord))
          /\ \A i \in 1..Len(groups_data) :
                LET g == groups_data[i] IN
                LookupFailed("describe_group", "group", g.key) =>
                    /\ g.val.GroupId = g.key
                    /\ g.val.DisplayName = "Unknown"
                    /\ g.val.Description = ""
          /\ Len(memberships) = Len(groups_data)
          /\ \A k \in 1..Len(memberships) :
                LET m == memberships[k]
                    members == DictGet(groups_data, m.group).Members
                IN  IF m.failed THEN members = <<>>
                    ELSE /\ Len(members) = Len(m.users)
                         /\ \A j \in 1..Len(m.users) :
                               m.users[j] \in m.userFails =>
                                   members[j] = UnknownUser(m.users[j])
          /\ \A i \in 1..Len(permission_sets_data) :
                LET ps == permission_sets_data[i] IN
                /\ LookupFailed("describe_permission_set", "permission_set", ps.key) =>
                      /\ DOMAIN ps.val = {"Policies", "AssignedGroups"}
                      /\ result.sso_permission_sets_summary[i] = "Unknown"
                /\ DOMAIN ps.val.Policies = PolicyKeys
          /\ LET details == LookupsOf("describe_permission_set", "group_permission_set")
             IN  /\ Len(details) = Len(group_ps_log)
                 /\ \A k \in 1..Len(group_ps_log) :
                       /\ details[k].failed => DOMAIN AppendedEntry(k) = {"Policies"}
                       /\ DOMAIN AppendedEntry(k).Policies = PolicyKeys

\* A report of a run in which a group lookup, a permission-set lookup or a
\* policy retrieval failed, two failures in all.
C7_Witness ==
    /\ Returned
    /\ failures >= 2
    /\ \E i \in 1..Len(lookups) : lookups[i].failed /\ lookups[i].op = "describe_group"
    /\ \E i \in 1..Len(lookups) :
          lookups[i].failed /\ lookups[i].op \in {"describe_permission_set",
                                                   "permission_set_policies"}
    /\ Len(result.sso_groups) >= 1

(***************************************************************************)
(* C8: a group whose describe_group failed is in sso_groups with GroupId    *)
(* the principal id of the assignment, DisplayName "Unknown" and empty      *)
(* Description, and its Members are the members the membership listing      *)
(* gave, each resolved unless its own lookup failed.                        *)
(***************************************************************************)
C8_GroupPlaceholderKeepsMembers ==
    Returned =>
        \A k \in 1..Len(memberships) :
            LET m == memberships[k]
                g == m.group
            IN  LookupFailed("describe_group", "group", g) =>
                  \E i \in 1..Len(result.sso_groups) :
                     LET e == result.sso_groups[i] IN
                     /\ groups_data[i].key = g
                     /\ \E a \in Range(all_assignments) : IsGroupRecord(a) /\ a.PrincipalId = g
                     /\ e.GroupId = g
                     /\ e.DisplayName = "Unknown"
                     /\ e.Description = ""
                     /\ result.sso_groups_summary[i] = "Unknown"
                     /\ ~m.failed =>
                           /\ Len(e.Members) = Len(GroupMemberships(g))
                           /\ \A j \in 1..Len(e.Members) :
                                 /\ e.Members[j].UserId = GroupMemberships(g)[j]
                                 /\ (e.Members[j].UserName = "Unknown")
                                       <=> (GroupMemberships(g)[j] \in m.userFails)

\* A report with a placeholder group whose members were resolved.
C8_Witness ==
    /\ Returned
    /\ \E i \in 1..Len(result.sso_groups) :
          /\ LookupFailed("describe_group", "group", groups_data[i].key)
          /\ result.sso_groups[i].DisplayName = "Unknown"
          /\ Len(result.sso_groups[i].Members) >= 1
          /\ result.sso_groups[i].Members[1].UserName # "Unknown"

\* The provisioned listing succeeded and returned no permission set.
ZeroProvisioned == provisioned.called /\ ~provisioned.failed /\ provisioned.listing = <<>>

(***************************************************************************)
(* C9: for an account with zero provisioned permission sets the report has  *)
(* all three counts 0, empty collections and name lists, and the audited    *)
(* account id in its metadata.                                              *)
(***************************************************************************)
C9_ZeroProvisionedEmptyReport ==
    ZeroProvisioned =>
        /\ Returned
        /\ fetched = <<>> /\ lookups = <<>>
        /\ Returned => IsEmptyReportFor(result, account_id)

\* A report for an account whose provisioned listing succeeded and was empty.
C9_Witness == Returned /\ ZeroProvisioned /\ failures = 0 /\ result.summary.total_groups = 0

\* The provider answers of the end-to-end scenario.
EndToEndScenario ==
    /\ account_id = "123456789012"
    /\ ~provisioned.failed /\ Len(provisioned.listing) = 1
    /\ Len(fetched) = 1 /\ ~fetched[1].failed
    /\ Len(fetched[1].records) = 1
    /\ fetched[1].records[1].PrincipalType = "GROUP"
    /\ fetched[1].records[1].PrincipalId = "g-1"
    /\ fetched[1].records[1].PermissionSetArn = provisioned.listing[1]
    /\ GroupMemberships("g-1") = <<"u-1">>
    /\ failures = 0

(***************************************************************************)
(* C10: one permission set provisioned to account 123456789012, one GROUP   *)
(* assignment of it to g-1, g-1 with the single member u-1, every lookup    *)
(* succeeding: the three counts are 1 and the record of g-1 has one entry   *)
(* in Members and one in PermissionSets.                                    *)
(***************************************************************************)
C10_EndToEnd ==
    (Returned /\ EndToEndScenario) =>
        /\ result.summary = [total_groups |-> 1, total_permission_sets |-> 1,
                             total_assignments |-> 1]
        /\ Len(result.sso_groups) = 1
        /\ result.sso_groups[1].GroupId = "g-1"
        /\ Len(result.sso_groups[1].Members) = 1
        /\ result.sso_groups[1].Members[1].UserId = "u-1"
        /\ Len(result.sso_groups[1].PermissionSets) = 1
        /\ result.metadata.account_id = "123456789012"

\* The report of the scenario.
C10_Witness ==
    /\ Returned /\ EndToEndScenario
    /\ result.sso_groups[1].PermissionSets[1].PermissionSetArn = provisioned.listing[1]

(***************************************************************************)
(* Vocabulary of the properties of the command line.                       *)
(***************************************************************************)
\* The run entered main: setup_logging is the first thing main calls.
EnteredMain == calls # <<>> /\ calls[1] = "setup_logging"

MainReturned(code) == EnteredMain /\ outcome = Returns(code)

Called(step) == \E i \in 1..Len(calls) : calls[i] = step

ErrorLines == SelectSeq(console, LAMBDA line : line.stream = "stderr")

(***************************************************************************)
(* C11: main returns 0 exactly when auditor construction, audit_account,   *)
(* save_results and display_results all completed without raising; when    *)
(* one of them raised, main wrote the error to the error channel and       *)
(* returned 1; once the arguments are parsed no exception escapes main.    *)
(***************************************************************************)
C11_MainMapsEveryFailureToExitCode ==
    EnteredMain =>
        /\ outcome.kind # "escaped"
        /\ cli_pc = "exit" => outcome \in {Returns(0), Returns(1)}
        /\ MainReturned(0) =>
              /\ Called("AWSSSOAuditor") /\ aws_manager # NoManager
              /\ Called("audit_account") /\ Returned
              /\ Called("save_results") /\ Called("display_results")
              /\ ErrorLines = <<>>
        /\ MainReturned(1) =>
              /\ Len(ErrorLines) = 1
              /\ console[Len(console)].stream = "stderr"

\* The client manager (and with it the auditor) has been constructed.
Constructed == aws_manager # NoManager

\* The constructor raised to a library caller after it had listed the instances.
DiscoveryRaised == outcome.kind = "escaped" /\ Called("list_instances")

(***************************************************************************)
(* C12: discovery records the instance ARN and the identity-store id of    *)
(* the first instance listed; with an empty listing the construction       *)
(* fails with SSOInstanceNotFoundError; a failing listing call is wrapped  *)
(* and re-raised; no constructed client manager has a null instance ARN    *)
(* or identity-store id.                                                   *)
(***************************************************************************)
C12_DiscoveryFirstInstanceOrNoInstanceError ==
    /\ Constructed =>
          /\ ~aws.listing_fails /\ aws.Instances # <<>>
          /\ aws_manager.instance_arn = aws.Instances[1].InstanceArn
          /\ aws_manager.identity_store_id = aws.Instances[1].IdentityStoreId
          /\ aws_manager.instance_arn # null
          /\ aws_manager.identity_store_id # null
    /\ (Called("list_instances") /\ cli_pc \in {"exit", "library", "formatter"}) =>
          (Constructed <=> (~aws.listing_fails /\ aws.Instances # <<>>
                            /\ "IdentityStoreId" \in DOMAIN aws.Instances[1]
                            /\ (config.debug => aws.sts_ok)))
    /\ (DiscoveryRaised /\ ~aws.listing_fails /\ aws.Instances = <<>>) =>
          outcome.exc.type = "SSOInstanceNotFoundError"
    /\ (DiscoveryRaised /\ aws.listing_fails) =>
          /\ outcome.exc.type \in AWSSSOAuditorErrors
          /\ outcome.exc.message =
                "Error initializing SSO clients: Failed to get SSO instance: AccessDenied"

\* save_results, called by main, has returned.
SaveReturned == EnteredMain /\ (cli_pc = "display" \/ Called("display_results"))

\* The format asked for on the command line, and the extensions it stands for.
RequestedFormat == IF "output_format" \in DOMAIN argv THEN argv.output_format ELSE "both"

RequestedExtensions ==
    IF RequestedFormat = "json" THEN <<".json">>
    ELSE IF RequestedFormat = "yaml" THEN <<".yaml">>
    ELSE <<".json", ".yaml">>

(***************************************************************************)
(* C13: save_results writes one file per requested format (.json for       *)
(* json, .yaml for yaml, one of each for both), each named                  *)
(* aws_sso_audit_<accountId>[_<timestamp>].<ext> under the configured      *)
(* output directory, the timestamp part being there exactly when           *)
(* include_timestamp is true, and returns the paths in the order written.  *)
(***************************************************************************)
C13_OneFilePerRequestedFormat ==
    SaveReturned =>
        /\ Len(files) = Len(RequestedExtensions)
        /\ Len(files) = Len(config.output_formats)
        /\ config.include_timestamp = ("no_timestamp" \notin DOMAIN argv)
        /\ \A i \in 1..Len(files) :
              files[i].path =
                  config.output_directory \o "/aws_sso_audit_" \o account_id
                      \o (IF config.include_timestamp THEN "_" \o strftime_now ELSE "")
                      \o RequestedExtensions[i]
        /\ saved_files = [i \in 1..Len(files) |-> files[i].path]

\* Both formats were saved by a run given --no-timestamp.
C13_Witness ==
    /\ SaveReturned /\ RequestedFormat = "both" /\ "no_timestamp" \in DOMAIN argv
    /\ Len(saved_files) = 2

\* The constructor of the auditor has run to its end or to its exception.
ConstructorEnded ==
    Called("AWSSSOAuditor") /\ cli_pc \notin {"library_start", "main", "auditor"}

\* The configuration has an output format outside json, yaml, both, or a
\* timeout that is not greater than 0.
InvalidConfig ==
    \/ \E i \in 1..Len(config.output_formats) :
          config.output_formats[i] \notin {"json", "yaml", "both"}
    \/ ~(config.timeout > 0)

ProviderCalls == SelectSeq(calls, LAMBDA c : c \notin {"setup_logging", "AWSSSOAuditor",
    "OutputFormatter", "audit_account", "save_results", "display_results"})

(***************************************************************************)
(* C14: Config.validate raises ConfigurationError exactly when some entry  *)
(* of output_formats is not json, yaml or both, or timeout is not greater  *)
(* than 0, and otherwise returns with the configuration as it was; the     *)
(* auditor validates before it builds a session or a client, so with an    *)
(* invalid configuration no provider call is made.                         *)
(***************************************************************************)
C14_ValidateBeforeAnyProviderCall ==
    ConstructorEnded =>
        /\ validate(config).raised <=> InvalidConfig
        /\ validate(config).raised => validate(config).exc.type = "ConfigurationError"
        /\ ~InvalidConfig => validate(config) = Ret(config)
        /\ InvalidConfig =>
              /\ ProviderCalls = <<>>
              /\ ~Constructed
              /\ ~EnteredMain => /\ outcome.kind = "escaped"
                                 /\ outcome.exc.type = "ConfigurationError"
        /\ ~InvalidConfig =>
              /\ ProviderCalls # <<>> /\ ProviderCalls[1] = "Session"
              /\ outcome.kind = "escaped" => outcome.exc.type # "ConfigurationError"

\* A library caller's configuration with valid formats and timeout 0 was refused.
C14_Witness ==
    /\ ConstructorEnded /\ ~EnteredMain
    /\ config.timeout = 0 /\ config.output_formats = <<"json", "both">>
    /\ outcome.kind = "escaped" /\ outcome.exc.type = "ConfigurationError"
    /\ ProviderCalls = <<>>

\* main has built the configuration it hands to the auditor.
Configured == EnteredMain /\ config # NoConfig

\* The value of a setting under the precedence command line, environment, default.
Preferred(option, variable, default) ==
    IF option \in DOMAIN argv THEN argv[option]
    ELSE IF variable \in DOMAIN environ THEN environ[variable]
    ELSE default

\* The value of a flag under the same precedence: given on the command
\* line, else set to true in the environment, else off.
PreferredFlag(option, variable) ==
    \/ option \in DOMAIN argv
    \/ variable \in DOMAIN environ /\ environ[variable] \in {"true", "True", "TRUE"}

(***************************************************************************)
(* C15: in the configuration main hands to the auditor each of region,     *)
(* profile, output directory, debug and quiet has the value given on the   *)
(* command line when there is one, else the value of its environment       *)
(* variable when that is set, else the built-in default.                   *)
(***************************************************************************)
C15_CommandLineOverEnvironmentOverDefault ==
    Configured =>
        /\ config.aws_region = Preferred("aws_region", "AWS_REGION", "us-east-1")
        /\ config.aws_profile = Preferred("aws_profile", "AWS_PROFILE", null)
        /\ config.output_directory =
              Preferred("output_dir", "AWS_ACCESS_AUDITOR_OUTPUT_DIR",
                        "./aws-sso-audit-results")
        /\ config.debug = PreferredFlag("debug", "AWS_ACCESS_AUDITOR_DEBUG")
        /\ config.quiet = PreferredFlag("quiet", "AWS_ACCESS_AUDITOR_QUIET")

\* The member record the claim expects for a describe_user response.
ExpectedMember(response) ==
    [UserId |-> response.v.UserId.v,
     UserName |-> response.v.UserName.v,
     DisplayName |-> IF "DisplayName" \in DOMAIN response.v
                     THEN response.v.DisplayName.v ELSE response.v.UserName.v,
     Email |-> IF "Emails" \in DOMAIN response.v /\ response.v.Emails.v # <<>>
               THEN response.v.Emails.v[1].v.Value.v ELSE ""]

(***************************************************************************)
(* C16: a member record built from a successful describe_user response     *)
(* has the UserId and UserName returned, the DisplayName returned or else  *)
(* the UserName, and as Email the Value of the first entry of Emails or,   *)
(* without any entry, the empty string.                                    *)
(***************************************************************************)
C16_MemberRecordCarriesPrimaryEmail ==
    \A k \in 1..Len(memberships) :
        LET m == memberships[k] IN
        (~m.failed /\ HasKey(groups_data, m.group)) =>
            \A j \in 1..Len(m.users) :
                m.users[j] \notin m.userFails =>
                    DictGet(groups_data, m.group).Members[j]
                        = ExpectedMember(describe_user(m.users[j]))

(***************************************************************************)
(* Vocabulary of the properties of the lookups of one audit_account run.   *)
(***************************************************************************)
LookupsFor(op, id) == SelectSeq(lookups, LAMBDA l : l.op = op /\ l.id = id)

RecordsOfGroup(g) ==
    {i \in 1..Len(all_assignments) :
        IsGroupRecord(all_assignments[i]) /\ all_assignments[i].PrincipalId = g}

RecordsOfPermissionSet(arn) ==
    {i \in 1..Len(all_assignments) : all_assignments[i].PermissionSetArn = arn}

First(S) == CHOOSE i \in S : \A j \in S : i <= j

IsPrefix(s, t) == Len(s) <= Len(t) /\ SubSeq(t, 1, Len(s)) = s

\* The step looked the group up, or enumerated its members.
FetchesGroup(g) ==
    \/ Len(LookupsFor("describe_group", g)') > Len(LookupsFor("describe_group", g))
    \/ Len(LookupsFor("list_group_memberships", g)')
           > Len(LookupsFor("list_group_memberships", g))

\* The step leaves the stored group as it is but for entries appended to PermissionSets.
OnlyAppendsPermissionSets(g) ==
    LET before == DictGet(groups_data, g)
        after == DictGet(groups_data', g)
    IN  /\ HasKey(groups_data', g)
        /\ [after EXCEPT !.PermissionSets = before.PermissionSets] = before
        /\ IsPrefix(before.PermissionSets, after.PermissionSets)

(***************************************************************************)
(* C17: in one run the group-detail lookup and the membership enumeration  *)
(* are each made exactly once per group identifier of a GROUP record, at   *)
(* the first record that references the group; no later step fetches the   *)
(* group again, and a later step leaves its GroupId, DisplayName,          *)
(* Description and Members unchanged and only appends to PermissionSets.   *)
(***************************************************************************)
C17_GroupFetchedOnceAtFirstSight ==
    /\ [](\A g \in GroupIds :
            /\ Len(LookupsFor("describe_group", g)) <= 1
            /\ Len(LookupsFor("list_group_memberships", g)) <= 1
            /\ HasKey(groups_data, g) <=> Len(LookupsFor("describe_group", g)) = 1
            /\ HasKey(groups_data, g) <=> Len(LookupsFor("list_group_memberships", g)) = 1
            /\ Returned => (HasKey(groups_data, g) <=> RecordsOfGroup(g) # {}))
    /\ [][\A g \in GroupIds :
            /\ FetchesGroup(g) =>
                  /\ ~HasKey(groups_data, g)
                  /\ idx = First(RecordsOfGroup(g))
            /\ HasKey(groups_data, g) => OnlyAppendsPermissionSets(g)]_vars

\* A report of a run in which a group was referenced by two records and
\* looked up once.
C17_Witness ==
    /\ Returned
    /\ \E g \in GroupIds :
          /\ Cardinality(RecordsOfGroup(g)) = 2
          /\ Len(LookupsFor("describe_group", g)) = 1
          /\ Len(LookupsFor("list_group_memberships", g)) = 1
          /\ Len(DictGet(groups_data, g).PermissionSets) = 2

\* The lookups of one operation for one identifier made at one place of the loop body.
LookupsAt(op, id, at) ==
    SelectSeq(lookups, LAMBDA l : l.op = op /\ l.id = id /\ l.at = at)

GroupRecordsOfPermissionSet(arn) ==
    {i \in RecordsOfPermissionSet(arn) : IsGroupRecord(all_assignments[i])}

PermissionSetOps == {"describe_permission_set", "permission_set_policies"}

\* The step made the first-sight fetch of the permission set.
FetchesPermissionSetOnFirstSight(arn) ==
    \E op \in PermissionSetOps :
        Len(LookupsAt(op, arn, "permission_set")') > Len(LookupsAt(op, arn, "permission_set"))

\* The permission set is fetched on its first sight by record idx, and
\* recorded with an empty AssignedGroups list.  The loop body goes on with the
\* guarded append of the record's group (auditor.py, 111-118), which is
\* the same step here.
RecordedOnFirstSight(arn) ==
    /\ ~HasKey(permission_sets_data, arn)
    /\ idx = First(RecordsOfPermissionSet(arn))
    /\ HasKey(permission_sets_data', arn)
    /\ \E entry \in {DictGet(permission_sets_data', arn)} :
          /\ [entry EXCEPT !.AssignedGroups = <<>>]
                \in {PermissionSetEntry(get_permission_set_details(arn, f).val,
                                        get_permission_set_policies(arn, m).val) :
                        f \in BOOLEAN, m \in PolicyModes}
          /\ entry.AssignedGroups
                = IF IsGroupRecord(all_assignments[idx])
                  THEN <<all_assignments[idx].PrincipalId>> ELSE <<>>

(***************************************************************************)
(* C18, as stated: the details and the policy bundle of a permission set   *)
(* are fetched once per distinct permission-set identifier in one run, on  *)
(* the first sight of the permission set in the raw sequence, and the      *)
(* permission set is recorded at that moment with an empty AssignedGroups. *)
(***************************************************************************)
C18_FetchedOncePerPermissionSet ==
    /\ [](\A arn \in PermissionSetArns : \A op \in PermissionSetOps :
            /\ Len(LookupsFor(op, arn)) <= 1
            /\ Len(LookupsFor(op, arn)) = 1 <=> HasKey(permission_sets_data, arn))
    /\ [][\A arn \in PermissionSetArns :
            FetchesPermissionSetOnFirstSight(arn) => RecordedOnFirstSight(arn)]_vars

(***************************************************************************)
(* C18, amended: the first-sight fetch of the details and of the policy    *)
(* bundle of a permission set is made once per distinct permission-set     *)
(* identifier in one run, at the first record of that permission set in    *)
(* the raw sequence, and the permission set is recorded at that moment     *)
(* with an empty AssignedGroups list; besides it, the details and the      *)
(* bundle are fetched once more for every GROUP record of the permission   *)
(* set, the first one included.                                            *)
(***************************************************************************)
C18_FirstSightFetchOncePlusOnePerGroupRecord ==
    /\ [](\A arn \in PermissionSetArns : \A op \in PermissionSetOps :
            /\ Len(LookupsAt(op, arn, "permission_set")) <= 1
            /\ Len(LookupsAt(op, arn, "permission_set")) = 1
                  <=> HasKey(permission_sets_data, arn)
            /\ Len(LookupsFor(op, arn))
                  = Len(LookupsAt(op, arn, "permission_set"))
                    + Len(LookupsAt(op, arn, "group_permission_set"))
            /\ Returned =>
                  /\ HasKey(permission_sets_data, arn) <=> RecordsOfPermissionSet(arn) # {}
                  /\ Len(LookupsAt(op, arn, "group_permission_set"))
                        = Cardinality(GroupRecordsOfPermissionSet(arn)))
    /\ [][\A arn \in PermissionSetArns :
            FetchesPermissionSetOnFirstSight(arn) => RecordedOnFirstSight(arn)]_vars

\* A report of a run in which a permission set was assigned to groups twice:
\* one first-sight fetch and two fetches for the group records.
C18_Witness ==
    /\ Returned
    /\ \E arn \in PermissionSetArns :
          /\ Cardinality(GroupRecordsOfPermissionSet(arn)) = 2
          /\ Len(LookupsAt("describe_permission_set", arn, "permission_set")) = 1
          /\ Len(LookupsFor("describe_permission_set", arn)) = 3
          /\ Len(LookupsFor("permission_set_policies", arn)) = 3

\* The appends made under one group, in order.
AppendsOfGroup(g) == SelectSeq(group_ps_log, LAMBDA e : e[1] = g)

\* The records a permission set can resolve to, whatever fails on the way.
ResolutionsOf ==
    [arn \in PermissionSetArns |->
        {PermissionSetFullDetails(get_permission_set_details(arn, f).val,
                                  get_permission_set_policies(arn, m).val) :
            f \in BOOLEAN, m \in PolicyModes}]

(***************************************************************************)
(* C19: for every group of a report, the length of its PermissionSets list *)
(* is the number of GROUP records of the group in the raw sequence: every  *)
(* such record appends one newly resolved record, nothing is deduplicated, *)
(* and a (group, permission set) pair that occurs k times yields k entries *)
(* of that permission set under the group.                                 *)
(***************************************************************************)
C19_OnePermissionSetEntryPerGroupRecord ==
    /\ \A g \in GroupIds :
          HasKey(groups_data, g) =>
              LET entries == DictGet(groups_data, g).PermissionSets
                  appends == AppendsOfGroup(g)
              IN  /\ Len(entries) = Len(appends)
                  /\ \A k \in 1..Len(entries) : entries[k] \in ResolutionsOf[appends[k][2]]
    /\ Returned =>
          /\ result.sso_groups = Values(groups_data)
          /\ \A g \in GroupIds :
                /\ HasKey(groups_data, g) <=> RecordsOfGroup(g) # {}
                /\ HasKey(groups_data, g) =>
                      /\ Len(DictGet(groups_data, g).PermissionSets)
                            = Cardinality(RecordsOfGroup(g))
                      /\ \A arn \in PermissionSetArns :
                            Len(SelectSeq(AppendsOfGroup(g), LAMBDA e : e[2] = arn))
                                = Cardinality(RecordsOfGroup(g) \cap RecordsOfPermissionSet(arn))

\* A report in which one (group, permission set) pair occurred twice and the
\* group carries two equal entries for it.
C19_Witness ==
    /\ Returned
    /\ \E g \in GroupIds : \E arn \in PermissionSetArns :
          /\ Cardinality(RecordsOfGroup(g) \cap RecordsOfPermissionSet(arn)) = 2
          /\ HasKey(groups_data, g)
          /\ LET entries == DictGet(groups_data, g).PermissionSets
             IN  \E i, j \in 1..Len(entries) : i < j /\ entries[i] = entries[j]

\* Record idx is a USER record whose loop body is being run.
ProcessingUserRecord ==
    pc = "process" /\ all_assignments[idx].PrincipalType = "USER"

AssignedGroupsOf(psets) == [i \in 1..Len(psets) |-> psets[i].val.AssignedGroups]

(***************************************************************************)
(* C20: a USER record is counted in total_assignments but not materialized *)
(* per user: running its loop body adds or changes no entry of sso_groups, *)
(* adds to no AssignedGroups list and makes no group, membership or user   *)
(* lookup; its only other effect is the first-sight registration of its    *)
(* permission set in permission_sets.                                      *)
(***************************************************************************)
C20_UserRecordOnlyRegistersPermissionSet ==
    /\ [](Returned =>
            /\ result.summary.total_assignments = Len(all_assignments)
            /\ \A i \in 1..Len(groups_data) : groups_data[i].key \in GroupIds
            /\ \A i \in 1..Len(groups_data) : RecordsOfGroup(groups_data[i].key) # {}
            /\ \A i \in 1..Len(permission_sets_data) :
                  Range(permission_sets_data[i].val.AssignedGroups)
                      = {all_assignments[j].PrincipalId :
                            j \in GroupRecordsOfPermissionSet(permission_sets_data[i].key)}
            /\ Len(SelectSeq(lookups, LAMBDA l : l.op \in {"describe_group",
                                                             "list_group_memberships"}))
                  = 2 * Len(groups_data))
    /\ [][ProcessingUserRecord =>
            LET arn == all_assignments[idx].PermissionSetArn
            IN  /\ groups_data' = groups_data
                /\ memberships' = memberships
                /\ group_ps_log' = group_ps_log
                /\ ~HasKey(permission_sets_data, arn)
                /\ Len(permission_sets_data') = Len(permission_sets_data) + 1
                /\ SubSeq(permission_sets_data', 1, Len(permission_sets_data))
                      = permission_sets_data
                /\ permission_sets_data'[Len(permission_sets_data')].key = arn
                /\ permission_sets_data'[Len(permission_sets_data')].val.AssignedGroups = <<>>
                /\ Len(lookups') = Len(lookups) + 2
                /\ \A k \in (Len(lookups) + 1)..Len(lookups') :
                      /\ lookups'[k].op \in PermissionSetOps
                      /\ lookups'[k].id = arn
                      /\ lookups'[k].at = "permission_set"]_vars

\* A report of a run with a USER record of a permission set that no GROUP
\* record referenced: the permission set is registered with no assigned group
\* and the record is counted.
C20_Witness ==
    /\ Returned
    /\ \E i \in 1..Len(all_assignments) :
          /\ all_assignments[i].PrincipalType = "USER"
          /\ GroupRecordsOfPermissionSet(all_assignments[i].PermissionSetArn) = {}
          /\ HasKey(permission_sets_data, all_assignments[i].PermissionSetArn)
          /\ DictGet(permission_sets_data, all_assignments[i].PermissionSetArn).AssignedGroups
                = <<>>
          /\ result.summary.total_assignments >= 2
          /\ Len(groups_data) >= 1

\* The identifiers named by the records of the raw sequence, in order of first sight.
GroupsInOrderOfFirstSight ==
    LET recs == SelectSeq(all_assignments, IsGroupRecord)
    IN  FirstOccurrences([i \in 1..Len(recs) |-> recs[i].PrincipalId])

PermissionSetsInOrderOfFirstSight ==
    FirstOccurrences([i \in 1..Len(all_assignments) |-> all_assignments[i].PermissionSetArn])

(***************************************************************************)
(* C21: every report is internally consistent: the two name lists have the *)
(* lengths of the two collections, the i-th name is the DisplayName of the *)
(* i-th group and the Name of the i-th permission set ("Unknown" when it   *)
(* has none), both collections are in order of first sight in the raw      *)
(* sequence, and total_groups and total_permission_sets are their sizes.   *)
(***************************************************************************)
C21_ReportInternallyConsistent ==
    Returned =>
        /\ Len(result.sso_groups_summary) = Len(result.sso_groups)
        /\ \A i \in 1..Len(result.sso_groups) :
              result.sso_groups_summary[i] = result.sso_groups[i].DisplayName
        /\ Len(result.sso_permission_sets_summary) = Len(result.permission_sets)
        /\ \A i \in 1..Len(result.permission_sets) :
              result.sso_permission_sets_summary[i]
                  = IF "Name" \in DOMAIN result.permission_sets[i]
                    THEN result.permission_sets[i].Name ELSE "Unknown"
        /\ result.sso_groups = Values(groups_data)
        /\ Keys(groups_data) = GroupsInOrderOfFirstSight
        /\ \A i \in 1..Len(result.sso_groups) :
              result.sso_groups[i].GroupId = GroupsInOrderOfFirstSight[i]
        /\ result.permission_sets = Values(permission_sets_data)
        /\ Keys(permission_sets_data) = PermissionSetsInOrderOfFirstSight
        /\ result.summary.total_groups = Len(result.sso_groups)
        /\ result.summary.total_permission_sets = Len(result.permission_sets)

\* A report with two groups and two permission sets, one of them without a Name.
C21_Witness ==
    /\ Returned
    /\ Len(result.sso_groups) = 2
    /\ Len(result.permission_sets) = 2
    /\ "Name" \notin DOMAIN result.permission_sets[1]
    /\ "Name" \in DOMAIN result.permission_sets[2]
    /\ result.sso_permission_sets_summary[1] = "Unknown"

\* get_permission_sets_for_account on every listing, paging and failing request.
PermissionSetListingCases ==
    \A listing \in DistinctSeq(PermissionSetArns, MaxProvisioned) :
    \A pages \in Splits(listing, MaxPages) :
    \A failAt \in 0..(Len(pages) + 1) :
        get_permission_sets_for_account(pages, failAt)
            = IF failAt > Len(pages) THEN Ret(Concat(pages)) ELSE Ret(<<>>)

(***************************************************************************)
(* C22: get_permission_sets_for_account returns the concatenation, in page *)
(* order, of the PermissionSets of every page when pagination succeeds,    *)
(* and the empty list, without raising, when get_paginator or the read of  *)
(* any page fails.                                                         *)
(***************************************************************************)
C22_ProvisionedListingConcatenatedOrEmpty ==
    /\ PermissionSetListingCases
    /\ provisioned.called =>
          /\ provisioned.failed => permission_sets = <<>>
          /\ ~provisioned.failed => permission_sets = provisioned.listing
          /\ (fetched = <<>> /\ lookups = <<>>) => ~Raised

\* The listing returned two permission sets.
C22_Witness ==
    /\ provisioned.called /\ ~provisioned.failed
    /\ Len(permission_sets) = 2
    /\ permission_sets = provisioned.listing

\* The records of the raw sequence that lack a key the loop body reads.
MalformedRecords == {i \in 1..Len(all_assignments) : MissingKey(all_assignments[i]) # null}

(***************************************************************************)
(* C23: an exception that escapes the assignment loop of audit_account (a  *)
(* record lacking PrincipalType, PrincipalId or PermissionSetArn) is       *)
(* turned into one AWSSSOAuditorError that carries the account id and the  *)
(* root cause, and then no report, not even a partial one, is returned.    *)
(***************************************************************************)
C23_LoopFailureBecomesOneAuditorError ==
    /\ MalformedRecords # {} => ~Returned /\ result = NoResult
    /\ Returned => result # NoResult /\ error = NoError
    /\ Raised =>
          /\ MalformedRecords # {}
          /\ idx = First(MalformedRecords)
          /\ result = NoResult
          /\ error.type = "AWSSSOAuditorError"
          /\ error.account_id = account_id
          /\ error.cause = KeyError(MissingKey(all_assignments[idx]))

\* The run failed at the second record, after the group and the permission
\* set of the first were stored.
C23_Witness ==
    /\ Raised
    /\ idx = 2
    /\ Len(groups_data) = 1
    /\ Len(permission_sets_data) = 1
    /\ result = NoResult
    /\ error.cause = KeyError("PrincipalId")

\* save_results, called by main, has raised.
SaveRaised ==
    /\ EnteredMain /\ cli_pc = "exit"
    /\ calls[Len(calls)] = "save_results"

\* The files the run of main sets out to write, in order.
FilesToWrite ==
    SaveTargets(config, account_id,
                IF config.include_timestamp THEN strftime_now ELSE "",
                config.output_formats)

(***************************************************************************)
(* C24: file writes are not transactional: when the write of the n-th      *)
(* requested format fails in save_results, the files written for the       *)
(* earlier formats stay on disk unchanged, save_results raises and returns *)
(* no path list, and main returns exit code 1.                             *)
(***************************************************************************)
C24_WritesNotTransactional ==
    /\ [](SaveRaised =>
            /\ outcome = Returns(1)
            /\ saved_files = <<>>
            /\ ErrorLines # <<>>
            /\ \E n \in 1..Len(FilesToWrite) :
                  /\ ErrorLines[Len(ErrorLines)].text
                        = "Unexpected error: cannot open " \o FilesToWrite[n].path
                  /\ files = SubSeq(FilesToWrite, 1, n - 1))
    /\ [][IsPrefix(files, files')]_vars

\* The write of the second of two files failed: the first is on disk and main returned 1.
C24_Witness ==
    /\ SaveRaised
    /\ Len(FilesToWrite) = 2
    /\ Len(files) = 1
    /\ files[1] = FilesToWrite[1]
    /\ outcome = Returns(1)

\* A library caller has called one method of the sink: calls names the method
\* and the file argument.
SinkCalled == cli_pc = "sink_done"
SinkMethodCalled == calls[2]
SinkFileGiven == calls[3]

\* main has built its configuration and its sink.
SinkBuilt == EnteredMain /\ config # NoConfig

\* The texts main and the constructor write with progress and debug_info.
ProgressAndDebugTexts ==
    {"Initializing AWS SSO Auditor...", "Initializing AWS clients...",
     "Saving results to files...", "Processed 0 groups, 0 permission sets",
     "Connected to SSO instance: " \o instance_arn,
     "Connected to SSO instance: " \o OtherInstance.InstanceArn}

\* What the claim says of a run of main, in every mode.
MainGatedByVerbosity ==
    SinkBuilt =>
        /\ config.quiet => console = ErrorLines
        /\ (config.quiet /\ Called("display_results") /\ outcome = Returns(0)) =>
              console = <<>>
        /\ (config.quiet /\ SaveReturned) => files = FilesToWrite /\ files # <<>>
        /\ outcome = Returns(1) =>
              /\ ErrorLines # <<>>
              /\ console[Len(console)].stream = "stderr"
        /\ \A i \in 1..Len(console) :
              console[i].text \in ProgressAndDebugTexts => config.debug /\ ~config.quiet
        /\ (config.debug /\ ~config.quiet /\ Called("AWSSSOAuditor")) =>
              \E i \in 1..Len(console) : console[i].text = "Initializing AWS SSO Auditor..."

\* What the claim says of the methods error, progress and debug_info.
SinkMethodsGated ==
    SinkCalled =>
        /\ SinkMethodCalled = "error" => console = <<Line("stderr", "message")>>
        /\ SinkMethodCalled \in {"progress", "debug_info"} =>
              (console # <<>> <=> config.debug /\ ~config.quiet)
        /\ (~config.quiet /\ SinkMethodCalled \notin {"progress", "debug_info"}) =>
              console # <<>>

ListedGroups(arn) ==
    IF HasKey(permission_sets_data, arn)
    THEN Range(DictGet(permission_sets_data, arn).AssignedGroups)
    ELSE {}

(***************************************************************************)
(* C26: the two views of a report agree: a group g is in the               *)
(* AssignedGroups of a permission set p exactly when the raw sequence has  *)
(* a GROUP record for (g, p), which is exactly when the PermissionSets     *)
(* list of g received an entry for p; no group is listed under a           *)
(* permission set it was never assigned to, and every group named in an    *)
(* AssignedGroups list has an entry in sso_groups.                         *)
(***************************************************************************)
C26_GroupAndPermissionSetViewsAgree ==
    Returned =>
        /\ result.sso_groups = Values(groups_data)
        /\ result.permission_sets = Values(permission_sets_data)
        /\ \A arn \in PermissionSetArns :
              /\ ListedGroups(arn) \subseteq GroupIds
              /\ \A g \in ListedGroups(arn) :
                    /\ HasKey(groups_data, g)
                    /\ \E i \in 1..Len(result.sso_groups) : result.sso_groups[i].GroupId = g
              /\ \A g \in GroupIds :
                    /\ g \in ListedGroups(arn)
                          <=> RecordsOfGroup(g) \cap RecordsOfPermissionSet(arn) # {}
                    /\ g \in ListedGroups(arn)
                          <=> <<g, arn>> \in Range(group_ps_log)
                    /\ g \in ListedGroups(arn) =>
                          \E k \in 1..Len(AppendsOfGroup(g)) :
                              /\ AppendsOfGroup(g)[k][2] = arn
                              /\ DictGet(groups_data, g).PermissionSets[k]
                                     \in ResolutionsOf[arn]

\* A report with two groups listed under one permission set.
C26_Witness ==
    /\ Returned
    /\ \E arn \in PermissionSetArns :
          /\ ListedGroups(arn) = GroupIds
          /\ \A g \in GroupIds : Len(DictGet(groups_data, g).PermissionSets) = 1

\* The permission-set identifiers that occur in the raw sequence.
AssignedPermissionSets ==
    {all_assignments[i].PermissionSetArn : i \in 1..Len(all_assignments)}

(***************************************************************************)
(* C27: the permission_sets collection of a report holds exactly the       *)
(* distinct PermissionSetArn values of the raw sequence: a permission set  *)
(* that is provisioned but has no assignment record, or whose assignment   *)
(* listing failed, does not appear, so total_permission_sets can be        *)
(* smaller than the number of provisioned permission sets, and is 0        *)
(* whenever total_assignments is 0.                                        *)
(***************************************************************************)
C27_OnlyAssignedPermissionSetsReported ==
    Returned =>
        /\ result.permission_sets = Values(permission_sets_data)
        /\ Range(Keys(permission_sets_data)) = AssignedPermissionSets
        /\ Len(permission_sets_data) = Cardinality(AssignedPermissionSets)
        /\ result.summary.total_permission_sets = Cardinality(AssignedPermissionSets)
        /\ result.summary.total_permission_sets <= Len(permission_sets)
        /\ \A k \in 1..Len(fetched) :
              (fetched[k].failed \/ fetched[k].records = <<>>) =>
                  /\ fetched[k].arn \in Range(permission_sets)
                  /\ ~HasKey(permission_sets_data, fetched[k].arn)
        /\ result.summary.total_assignments = 0 =>
              result.summary.total_permission_sets = 0

\* A report of an account with two provisioned permission sets, one of which
\* has a failed assignment listing: one permission set is reported.
C27_Witness ==
    /\ Returned
    /\ Len(permission_sets) = 2
    /\ \E k \in 1..Len(fetched) : fetched[k].failed
    /\ result.summary.total_permission_sets = 1
    /\ result.summary.total_assignments >= 1

\* The two paginated listings on every paging and every failing request.
FailedListingsReturnEmpty ==
    /\ \A principals \in BoundedSeq(Principals, MaxAssignments) :
       \A arn \in PermissionSetArns : \A account \in AccountIds :
       \A pages \in Splits([i \in 1..Len(principals) |->
                               AssignmentRecord(principals[i], arn, account)], MaxPages) :
       \A failAt \in 0..(Len(pages) + 1) :
           get_account_assignments_for_permission_set(pages, failAt)
               = IF failAt > Len(pages) THEN Ret(Concat(pages)) ELSE Ret(<<>>)
    /\ \A g \in GroupIds :
       \A pages \in Splits([i \in 1..Len(GroupMemberships(g)) |->
                               Membership(g, GroupMemberships(g)[i])], MaxPages) :
       \A failAt \in 0..(Len(pages) + 1) :
       \A userFails \in SUBSET Range(GroupMemberships(g)) :
           LET members == get_group_members(g, pages, failAt, userFails)
           IN  /\ ~members.raised
               /\ failAt <= Len(pages) => members.val = <<>>
               /\ failAt > Len(pages) => Len(members.val) = Len(GroupMemberships(g))

\* get_permission_set_policies on every permission set and every failure.
PolicyBundleKeepsWhatItCollected ==
    \A arn \in PermissionSetArns : \A mode \in PolicyModes :
        LET bundle == get_permission_set_policies(arn, mode)
            whole == get_permission_set_policies(arn, "ok").val
        IN  /\ ~bundle.raised
            /\ DOMAIN bundle.val = PolicyKeys
            /\ mode = "managed_fail" =>
                  bundle.val = [managed_policies |-> <<>>, customer_managed_policies |-> <<>>,
                                inline_policy |-> None]
            /\ mode = "customer_fail" =>
                  bundle.val = [whole EXCEPT !.customer_managed_policies = <<>>,
                                             !.inline_policy = None]
            /\ mode \in {"inline_fail", "inline_not_found"} =>
                  bundle.val = [whole EXCEPT !.inline_policy = None]

DetailLookupFailed(arn) ==
    \E k \in 1..Len(lookups) :
        /\ lookups[k].op = "describe_permission_set" /\ lookups[k].id = arn
        /\ lookups[k].at = "permission_set" /\ lookups[k].failed

(***************************************************************************)
(* C29: when describe_permission_set fails for a permission set, the       *)
(* permission set is still counted in total_permission_sets and still has  *)
(* an entry in permission_sets, but the entry carries only Policies and    *)
(* AssignedGroups (no ARN, no Name) and shows as "Unknown" in              *)
(* sso_permission_sets_summary: the report does not say which permission   *)
(* set the entry stands for.                                               *)
(***************************************************************************)
C29_FailedDetailLookupLeavesAnonymousEntry ==
    Returned =>
        /\ result.summary.total_permission_sets = Len(permission_sets_data)
        /\ Len(result.permission_sets) = Len(permission_sets_data)
        /\ \A arn \in AssignedPermissionSets : HasKey(permission_sets_data, arn)
        /\ \A i \in 1..Len(permission_sets_data) :
              LET arn == permission_sets_data[i].key
                  entry == result.permission_sets[i]
              IN  /\ entry = permission_sets_data[i].val
                  /\ DetailLookupFailed(arn) =>
                        /\ DOMAIN entry = {"Policies", "AssignedGroups"}
                        /\ result.sso_permission_sets_summary[i] = "Unknown"
                  /\ ~DetailLookupFailed(arn) =>
                        /\ {"PermissionSetArn", "Name"} \subseteq DOMAIN entry
                        /\ entry.PermissionSetArn = arn
                        /\ result.sso_permission_sets_summary[i] = entry.Name

\* A report with two permission sets, the detail lookup of the first failed.
C29_Witness ==
    /\ Returned
    /\ result.summary.total_permission_sets = 2
    /\ DetailLookupFailed(permission_sets_data[1].key)
    /\ ~DetailLookupFailed(permission_sets_data[2].key)
    /\ result.sso_permission_sets_summary[1] = "Unknown"
    /\ DOMAIN result.permission_sets[1] = {"Policies", "AssignedGroups"}

\* The steps of main, in the order of the source (cli.py, 101-116).
MainSteps ==
    <<"AWSSSOAuditor", "OutputFormatter", "audit_account", "save_results", "display_results">>

\* The positions of a step in the calls of the run.
PositionsOf(step) == {i \in 1..Len(calls) : calls[i] = step}

(***************************************************************************)
(* C30: main runs its steps in the fixed order construct auditor, audit,   *)
(* save, display: save_results is called only after audit_account returned *)
(* a report and display_results only after save_results returned, so no    *)
(* file is written when the construction or the audit fails and nothing is *)
(* displayed when saving fails; each step runs at most once per            *)
(* invocation.                                                             *)
(***************************************************************************)
C30_StepsInFixedOrder ==
    EnteredMain =>
        /\ \A k \in 1..Len(MainSteps) : Cardinality(PositionsOf(MainSteps[k])) <= 1
        /\ \A k \in 2..Len(MainSteps) :
              Called(MainSteps[k]) =>
                  /\ Called(MainSteps[k - 1])
                  /\ \A i \in PositionsOf(MainSteps[k - 1]) :
                     \A j \in PositionsOf(MainSteps[k]) : i < j
        /\ Called("audit_account") => aws_manager # NoManager
        /\ Called("save_results") => pc = "done" /\ result # NoResult
        /\ Called("display_results") =>
              /\ files = FilesToWrite
              /\ saved_files = [i \in 1..Len(files) |-> files[i].path]
        /\ ~Called("save_results") => files = <<>>
        /\ (pc = "failed" \/ (Called("AWSSSOAuditor") /\ aws_manager = NoManager)) =>
              /\ files = <<>>
              /\ cli_pc = "exit" /\ outcome = Returns(1)
        /\ SaveRaised =>
              /\ ~Called("display_results")
              /\ \A i \in 1..Len(console) : console[i].text # "AWS SSO AUDIT RESULTS"

\* A run of main that made all its steps and returned 0.
C30_Witness ==
    /\ EnteredMain /\ outcome = Returns(0)
    /\ \A k \in 1..Len(MainSteps) : Cardinality(PositionsOf(MainSteps[k])) = 1
    /\ files # <<>>
    /\ \E i \in 1..Len(console) : console[i].text = "AWS SSO AUDIT RESULTS"

====
